---- MODULE Spec2Model ----
(***************************************************************************)
(* State-machine model of MapView (src/client/mapview.cpp): geometry,      *)
(* camera, lazy visibility refresh, floor range, floor fade timers and     *)
(* shader crossfade.  Collaborators that live outside mapview.cpp (Size,   *)
(* Position, Timer, Tile, Map) are modelled from their documented          *)
(* behaviour.                                                              *)
(***************************************************************************)
EXTENDS Integers, Sequences, FiniteSets, TLC

(***************************************************************************)
(* Program constants                                                        *)
(***************************************************************************)
SPRITE_SIZE == 32
MAX_Z == 15
SEA_FLOOR == 7
UNDERGROUND_FLOOR == 8
AWARE_UNDEGROUND_FLOOR_RANGE == 2

(***************************************************************************)
(* Bounds of the model                                                      *)
(***************************************************************************)
\* g_graphics.getMaxTextureSize(): a property of the graphics device
MaxTextureSize == 1024
\* largest pixel delta handed to move()
MaxDelta == 40
\* timers saturate here (every duration used is smaller)
MaxElapsed == 3
\* a refresh is not followed once the creature list is longer than this
MaxListed == 2
\* move() is not followed further than this many tiles from the start
MaxPan == 2

(***************************************************************************)
(* C++ integer helpers                                                      *)
(***************************************************************************)
Abs(a) == IF a < 0 THEN -a ELSE a
Min(a, b) == IF a < b THEN a ELSE b
Max(a, b) == IF a > b THEN a ELSE b
\* C++ integer division truncates toward zero
CDiv(a, b) == IF a >= 0 THEN a \div b ELSE -((-a) \div b)
\* C++ remainder has the sign of the dividend
CRem(a, b) == a - b * CDiv(a, b)
ToUint8(a) == a % 256
ToInt8(a) == LET u == a % 256 IN IF u >= 128 THEN u - 256 ELSE u
Clamp(a, lo, hi) == IF a < lo THEN lo ELSE IF a > hi THEN hi ELSE a

(***************************************************************************)
(* Size / Point / Position (framework value types)                          *)
(***************************************************************************)
Size(w, h) == [w |-> w, h |-> h]
Point(x, y) == [x |-> x, y |-> y]
\* TSize::operator< : true when either component is smaller
SizeLess(a, b) == a.w < b.w \/ a.h < b.h
Pos(x, y, z) == [x |-> x, y |-> y, z |-> z]
InvalidPosition == Pos(65535, 65535, 255)
IsValid(p) == ~(p.x = 65535 /\ p.y = 65535 /\ p.z = 255)
Translated(p, dx, dy) == Pos(p.x + dx, p.y + dy, p.z)
\* Position::coveredUp(n): succeeds only inside the world bounds
CanCoveredUp(p, n) ==
    /\ p.x + n >= 0 /\ p.x + n <= 65535
    /\ p.y + n >= 0 /\ p.y + n <= 65535
    /\ p.z - n >= 0 /\ p.z - n <= MAX_Z
CoveredUp(p, n) == IF CanCoveredUp(p, n) THEN Pos(p.x + n, p.y + n, p.z - n) ELSE p
CanUp(p, n) == p.z - n >= 0 /\ p.z - n <= MAX_Z
Up(p, n) == IF CanUp(p, n) THEN Pos(p.x, p.y, p.z - n) ELSE p
\* Position::distance(p) >= 3, on the squares
DistanceAtLeast3(a, b) == (a.x - b.x) * (a.x - b.x) + (a.y - b.y) * (a.y - b.y) >= 9

(***************************************************************************)
(* Inputs                                                                   *)
(***************************************************************************)
DimWidths == {-3, 4, 13, 15, 29, 31}
DimHeights == {1, 2, 3, 4, 13, 29}
AntialiasingModes == {"ANTIALIASING_DISABLED", "ANTIALIASING_ENABLED", "ANTIALIASING_SMOOTH_RETRO"}
FloorViewModes == {"NORMAL", "ALWAYS", "ALWAYS_WITH_TRANSPARENCY", "LOCKED"}
\* g_map.getAwareRange(): the world-provided defaults
MapAwareRange == [left |-> 8, top |-> 6, right |-> 9, bottom |-> 7]
NoCreature == 0
Creatures == {1}
HomeX == 100
HomeY == 100
CameraXs == {HomeX, HomeX + 2, HomeX + 3}
NoShader == 0
Shaders == {0, 1, 2}
DefaultMapShader == 1
FadeTimes == {0, 2}
\* m_floorFading, in timer ticks
DefaultFloorFading == 2
FloorFadingValues == {0, DefaultFloorFading}
NoRect == [x |-> 0, y |-> 0, w |-> -1, h |-> -1]
LockFloors == {5}

(***************************************************************************)
(* The world (external collaborator): a set of tiles, creature positions    *)
(***************************************************************************)
Tile(p, dr, gr, su, ef, sh, lf, lb, lp) ==
    [pos |-> p, drawable |-> dr, ground |-> gr, surface |-> su, effect |-> ef,
     shade |-> sh, limitsFree |-> lf, limitsBlocked |-> lb, lookPossible |-> lp]
\* ground under the home camera position at sea level
TGround7 == Tile(Pos(HomeX, HomeY, 7), TRUE, TRUE, FALSE, FALSE, TRUE, TRUE, TRUE, TRUE)
\* a roof physically above it
TRoof6 == Tile(Pos(HomeX, HomeY, 6), TRUE, TRUE, TRUE, FALSE, TRUE, TRUE, TRUE, TRUE)
\* two underground tiles, one and two floors below an underground camera
TDeep11 == Tile(Pos(HomeX, HomeY, 11), TRUE, TRUE, FALSE, FALSE, FALSE, FALSE, FALSE, TRUE)
TDeep12 == Tile(Pos(HomeX, HomeY, 12), TRUE, TRUE, FALSE, FALSE, FALSE, FALSE, FALSE, TRUE)
\* a wall east of the home position that cannot be looked through, and a roof
\* over the wall
TWall7 == Tile(Pos(HomeX + 2, HomeY, 7), TRUE, TRUE, FALSE, FALSE, TRUE, TRUE, TRUE, FALSE)
TWallRoof6 == Tile(Pos(HomeX + 2, HomeY, 6), TRUE, TRUE, TRUE, FALSE, TRUE, TRUE, TRUE, TRUE)
\* a roof two floors over the position east of the wall
TRoof5 == Tile(Pos(HomeX + 3, HomeY, 5), TRUE, TRUE, TRUE, FALSE, TRUE, TRUE, TRUE, TRUE)
\* where the creature walks
CreaturePositions == {Pos(HomeX, HomeY, 7), Pos(HomeX + 1, HomeY, 7)}

VARIABLES
    m_visibleDimension, m_drawDimension, m_tileSize, m_scaleFactor,
    m_virtualCenterOffset, m_rectDimension, m_awareRange, m_rectCache,
    m_refreshVisibleTiles, m_refreshVisibleCreatures,
    m_follow, m_followingCreature, m_customCameraPosition, m_moveOffset,
    m_lastCameraPosition,
    m_floorViewMode, m_lockedFirstVisibleFloor,
    m_cachedFirstVisibleFloor, m_cachedLastVisibleFloor,
    m_floorMin, m_floorMax, m_cachedVisibleTiles, m_visibleCreatures,
    m_floorFading, m_fadingFloorTimers, m_lastFadeLevel,
    m_shader, m_nextShader, m_shaderSwitchDone, m_fadeTimer,
    m_fadeInTime, m_fadeOutTime,
    m_drawLights, globalLight,
    world, creaturePos,
    ev

geomVars == <<m_visibleDimension, m_drawDimension, m_tileSize, m_scaleFactor,
              m_virtualCenterOffset, m_rectDimension, m_awareRange>>
flagVars == <<m_refreshVisibleTiles, m_refreshVisibleCreatures>>
cameraVars == <<m_follow, m_followingCreature, m_customCameraPosition, m_moveOffset>>
floorVars == <<m_floorViewMode, m_lockedFirstVisibleFloor,
               m_cachedFirstVisibleFloor, m_cachedLastVisibleFloor,
               m_floorMin, m_floorMax, m_cachedVisibleTiles, m_visibleCreatures>>
fadeVars == <<m_floorFading, m_fadingFloorTimers, m_lastFadeLevel>>
shaderVars == <<m_shader, m_nextShader, m_shaderSwitchDone, m_fadeTimer,
                m_fadeInTime, m_fadeOutTime>>
lightVars == <<m_drawLights, globalLight>>
worldVars == <<world, creaturePos>>
vars == <<geomVars, m_rectCache, flagVars, cameraVars, m_lastCameraPosition,
          floorVars, fadeVars, shaderVars, lightVars, worldVars, ev>>

\* What the last operation did (observations for the properties): the return it
\* took, whether updateVisibleThings ran to its end, how often it called
\* onFloorChange, refreshVisibleCreatures and updateLight, which fade branch it
\* took, whether it called onFadeInFinished; the camera floor the latest
\* completed refresh saw; the passes a frame ran and the draw calls its floor
\* pass made, in order; and the floor of the manual lock in force, that is the
\* argument of the latest lockFirstVisibleFloor not yet followed by
\* unlockFirstVisibleFloor (-1 if none); the opacity the before-draw hook
\* passed to the painter, as <<numerator, denominator>>; the shader of the
\* latest shader request (the constructor's default shader at first); and
\* what the floor pass did to the pool opacity, floor by floor.
NoFloor == InvalidPosition.z
EventWith(op, seenFloor) ==
    [op |-> op, outcome |-> "done", refreshed |-> FALSE, floorChange |-> 0,
     refreshCreatures |-> 0, updateLight |-> 0, fadeCase |-> "none",
     fadeInFinished |-> FALSE, seenFloor |-> seenFloor,
     passes |-> {}, drawn |-> <<>>, manualLock |-> -1,
     opacity |-> <<1, 1>>, requested |-> DefaultMapShader, pool |-> <<>>]
Event(op) ==
    [EventWith(op, ev.seenFloor) EXCEPT !.manualLock = ev.manualLock,
                                        !.requested = ev.requested]


(***************************************************************************)
(* Camera                                                                   *)
(***************************************************************************)
isFollowingCreature == m_followingCreature # NoCreature /\ m_follow
\* the camera a call would read with the given follow target
CameraOf_CustomOnly(follow, creature, custom, cpos) == custom
CameraOf(follow, creature, custom, cpos) ==
    IF creature # NoCreature /\ follow THEN cpos[creature] ELSE custom
getCameraPosition ==
    CameraOf(m_follow, m_followingCreature, m_customCameraPosition, creaturePos)

(***************************************************************************)
(* Geometry: setVisibleDimension / setAntiAliasingMode / updateGeometry     *)
(***************************************************************************)
TileSizeOf(scaleFactor) == ToUint8(SPRITE_SIZE * scaleFactor)
DrawDimensionOf_NoMargin(visibleDimension) ==
    Size(visibleDimension.w + 2, visibleDimension.h + 3)
DrawDimensionOf(visibleDimension) ==
    Size(visibleDimension.w + 3, visibleDimension.h + 3)
BufferSizeOf(visibleDimension, scaleFactor) ==
    Size(DrawDimensionOf(visibleDimension).w * TileSizeOf(scaleFactor),
         DrawDimensionOf(visibleDimension).h * TileSizeOf(scaleFactor))
\* the "reached max zoom out" test of updateGeometry
ExceedsTexture(visibleDimension, scaleFactor) ==
    \/ BufferSizeOf(visibleDimension, scaleFactor).w > MaxTextureSize
    \/ BufferSizeOf(visibleDimension, scaleFactor).h > MaxTextureSize

\* updateGeometry(visibleDimension), run with m_scaleFactor = scaleFactor
updateGeometry(visibleDimension, scaleFactor) ==
    LET tileSize == TileSizeOf(scaleFactor)
        drawDimension == DrawDimensionOf(visibleDimension)
        bufferSize == BufferSizeOf(visibleDimension, scaleFactor)
        left == Min(MapAwareRange.left, CDiv(drawDimension.w, 2) - 1)
        top == Min(MapAwareRange.top, CDiv(drawDimension.h, 2) - 1)
    IN  IF ExceedsTexture(visibleDimension, scaleFactor)
        THEN UNCHANGED <<m_visibleDimension, m_drawDimension, m_tileSize,
                         m_virtualCenterOffset, m_rectDimension, m_awareRange,
                         m_rectCache, flagVars>>
        ELSE /\ m_visibleDimension' = visibleDimension
             /\ m_drawDimension' = drawDimension
             /\ m_tileSize' = tileSize
             /\ m_virtualCenterOffset' =
                    Point(CDiv(drawDimension.w, 2) - 1, CDiv(drawDimension.h, 2) - 1)
             /\ m_rectDimension' = bufferSize
             /\ m_awareRange' = [left |-> left, top |-> top,
                                 bottom |-> top + 1, right |-> left + 1]
             /\ m_rectCache' = [m_rectCache EXCEPT !.rect = NoRect]
             /\ m_refreshVisibleTiles' = TRUE
             /\ m_refreshVisibleCreatures' = TRUE

DimensionRejected_WidthOnly(visibleDimension) ==
    \/ CRem(visibleDimension.w, 2) # 1
    \/ SizeLess(visibleDimension, Size(3, 3))
\* the two "logged and rejected" tests of setVisibleDimension
DimensionRejected(visibleDimension) ==
    \/ CRem(visibleDimension.w, 2) # 1 \/ CRem(visibleDimension.h, 2) # 1
    \/ SizeLess(visibleDimension, Size(3, 3))

\* which return of setVisibleDimension / updateGeometry a call takes
GeometryOutcome(visibleDimension, scaleFactor) ==
    IF ExceedsTexture(visibleDimension, scaleFactor) THEN "max zoom out" ELSE "done"
DimensionOutcome(visibleDimension) ==
    IF visibleDimension = m_visibleDimension THEN "same"
    ELSE IF DimensionRejected(visibleDimension) THEN "rejected"
    ELSE GeometryOutcome(visibleDimension, m_scaleFactor)

setVisibleDimension(visibleDimension) ==
    /\ ev' = [Event("setVisibleDimension") EXCEPT
                !.outcome = DimensionOutcome(visibleDimension)]
    /\ UNCHANGED <<m_scaleFactor, cameraVars, m_lastCameraPosition, floorVars,
                   fadeVars, shaderVars, lightVars, worldVars>>
    /\ IF \/ visibleDimension = m_visibleDimension
          \/ DimensionRejected(visibleDimension)
       THEN UNCHANGED <<m_visibleDimension, m_drawDimension, m_tileSize,
                        m_virtualCenterOffset, m_rectDimension, m_awareRange,
                        m_rectCache, flagVars>>
       ELSE updateGeometry(visibleDimension, m_scaleFactor)

ScaleFactorOf(mode) == IF mode = "ANTIALIASING_SMOOTH_RETRO" THEN 2 ELSE 1

setAntiAliasingMode(mode) ==
    /\ ev' = [Event("setAntiAliasingMode") EXCEPT
                !.outcome = GeometryOutcome(m_visibleDimension, ScaleFactorOf(mode))]
    /\ UNCHANGED <<cameraVars, m_lastCameraPosition, floorVars,
                   fadeVars, shaderVars, lightVars, worldVars>>
    /\ m_scaleFactor' = ScaleFactorOf(mode)
    /\ updateGeometry(m_visibleDimension, ScaleFactorOf(mode))


(***************************************************************************)
(* World queries (g_map, Tile)                                              *)
(***************************************************************************)
\* creatures standing on a position, bottom of the stack first
RECURSIVE SetToSeq(_)
SetToSeq(S) == IF S = {} THEN <<>>
               ELSE LET m == CHOOSE a \in S : \A b \in S : a <= b
                    IN <<m>> \o SetToSeq(S \ {m})
TileCreatures(pos) == SetToSeq({c \in Creatures : creaturePos[c] = pos})
Reverse(s) == [i \in 1..Len(s) |-> s[Len(s) + 1 - i]]
\* g_map.getTile(pos) finds a tile: one of the world, or one holding a creature
HasTile(pos) == (\E t \in world : t.pos = pos) \/ (\E c \in Creatures : creaturePos[c] = pos)
getTile(pos) ==
    IF \E t \in world : t.pos = pos
    THEN CHOOSE t \in world : t.pos = pos
    ELSE Tile(pos, TRUE, FALSE, FALSE, FALSE, FALSE, FALSE, FALSE, TRUE)
\* Tile::limitsFloorsView(isFreeView)
limitsFloorsView(tile, isFreeView) ==
    IF isFreeView THEN tile.limitsFree ELSE tile.limitsBlocked
\* Map::isLookPossible(pos)
isLookPossible(pos) == HasTile(pos) /\ getTile(pos).lookPossible

(***************************************************************************)
(* Floor range: calcFirstVisibleFloor / calcLastVisibleFloor                *)
(***************************************************************************)
\* the while loop of calcFirstVisibleFloor, at its k-th iteration
RECURSIVE ScanUp(_, _, _, _)
ScanUp(pos, k, firstFloor, lookPossible) ==
    IF ~(CanCoveredUp(pos, k) /\ CanUp(pos, k) /\ Up(pos, k).z >= firstFloor)
    THEN firstFloor
    ELSE LET upperPos == Up(pos, k)
             coveredPos == CoveredUp(pos, k)
         IN  IF HasTile(upperPos) /\ limitsFloorsView(getTile(upperPos), ~lookPossible)
             THEN upperPos.z + 1
             ELSE IF HasTile(coveredPos) /\ limitsFloorsView(getTile(coveredPos), lookPossible)
             THEN coveredPos.z + 1
             ELSE ScanUp(pos, k + 1, firstFloor, lookPossible)

\* the 3x3 loop, in the order the code visits the cells
Neighbours_FirstRow == << <<-1, -1>>, <<-1, 0>>, <<-1, 1>> >>
Neighbours == << <<-1, -1>>, <<-1, 0>>, <<-1, 1>>, <<0, -1>>, <<0, 0>>, <<0, 1>>,
                 <<1, -1>>, <<1, 0>>, <<1, 1>> >>
RECURSIVE ScanNeighbours(_, _, _)
ScanNeighbours(cameraPosition, i, firstFloor) ==
    IF i > Len(Neighbours) \/ ~(firstFloor < cameraPosition.z)
    THEN firstFloor
    ELSE LET ix == Neighbours[i][1]
             iy == Neighbours[i][2]
             pos == Translated(cameraPosition, ix, iy)
         IN  IF (ix = 0 /\ iy = 0) \/ (Abs(ix) # Abs(iy) /\ isLookPossible(pos))
             THEN ScanNeighbours(cameraPosition, i + 1,
                                 ScanUp(pos, 1, firstFloor, isLookPossible(pos)))
             ELSE ScanNeighbours(cameraPosition, i + 1, firstFloor)

calcFirstVisibleFloor_NoUndergroundLimit(checkLimitsFloorsView, locked, cameraPosition) ==
    IF locked # -1 THEN Clamp(ToUint8(locked), 0, MAX_Z)
    ELSE IF ~IsValid(cameraPosition) THEN SEA_FLOOR
    ELSE Clamp(IF checkLimitsFloorsView THEN ScanNeighbours(cameraPosition, 1, 0) ELSE 0,
               0, MAX_Z)
calcFirstVisibleFloor(checkLimitsFloorsView, locked, cameraPosition) ==
    LET z == IF locked # -1 THEN ToUint8(locked)
             ELSE IF ~IsValid(cameraPosition) THEN SEA_FLOOR
             ELSE LET firstFloor ==
                          IF cameraPosition.z > SEA_FLOOR
                          THEN Max(ToUint8(cameraPosition.z - AWARE_UNDEGROUND_FLOOR_RANGE),
                                   UNDERGROUND_FLOOR)
                          ELSE 0
                  IN  IF checkLimitsFloorsView
                      THEN ScanNeighbours(cameraPosition, 1, firstFloor)
                      ELSE firstFloor
    IN  Clamp(z, 0, MAX_Z)

calcLastVisibleFloor_NoClamp(locked, cameraPosition) ==
    LET z0 == IF IsValid(cameraPosition) /\ cameraPosition.z > SEA_FLOOR
              THEN ToUint8(cameraPosition.z + AWARE_UNDEGROUND_FLOOR_RANGE)
              ELSE SEA_FLOOR
    IN  IF locked # -1 THEN ToUint8(Max(locked, z0)) ELSE z0
calcLastVisibleFloor(locked, cameraPosition) ==
    LET z0 == IF IsValid(cameraPosition) /\ cameraPosition.z > SEA_FLOOR
              THEN ToUint8(cameraPosition.z + AWARE_UNDEGROUND_FLOOR_RANGE)
              ELSE SEA_FLOOR
        z1 == IF locked # -1 THEN ToUint8(Max(locked, z0)) ELSE z0
    IN  Clamp(z1, 0, MAX_Z)


(***************************************************************************)
(* Floor fade timers (Timer, canFloorFade, getFadeLevel)                    *)
(***************************************************************************)
\* Timer::restart(shift): the timer then reads shift microseconds
TimerRestart(shiftMicros) == Min(CDiv(shiftMicros, 1000), MaxElapsed)
canFloorFadeWith(floorFading) == floorFading > 0
canFloorFade == canFloorFadeWith(m_floorFading)
\* getFadeLevel(z) = clamp(elapsed / m_floorFading, 0, 1) is 1, 0 or in between
FadeLevelIsOne(timers, z) == timers[z] >= m_floorFading

(***************************************************************************)
(* Visibility cache builder: updateVisibleThings                            *)
(***************************************************************************)
EmptyFloor == [grounds |-> <<>>, surfaces |-> <<>>, effects |-> <<>>, shades |-> <<>>]
\* g_app.isDrawingEffectsOnTop()
isDrawingEffectsOnTop == TRUE
isDrawingLightsWith(drawLights) == drawLights

\* The diagonal loops of updateVisibleThings (lines 388-396) visit, on diagonal
\* d, the cells (ix, d - ix) from ix = advance while iy >= 0 and ix < width,
\* where advance = std::max<uint32_t>(d - height, 0): the difference is taken
\* in unsigned arithmetic, so for d < height it wraps instead of being cut to
\* 0, and read back as int (ix = advance) it is d - height again.
StartIx(diagonal) == diagonal - m_drawDimension.h
StartIy(diagonal) == diagonal - StartIx(diagonal)
NumDiagonals == m_drawDimension.w + m_drawDimension.h - 1
CellVisited(ix, iy) ==
    LET diagonal == ix + iy
    IN  /\ diagonal >= 0 /\ diagonal < NumDiagonals
        /\ ix >= StartIx(diagonal)
        /\ iy = StartIy(diagonal) - (ix - StartIx(diagonal))
        /\ iy >= 0 /\ ix < m_drawDimension.w
\* the cell of the loop whose tilePos is pos on floor iz, if there is one:
\* tilePos = cameraPosition.translated(ix - offset.x, iy - offset.y), then
\* coveredUp(cameraPosition.z - iz), which leaves tilePos alone when it fails
CellBase(pos, cameraPosition, iz) ==
    LET n == cameraPosition.z - iz
        shifted == Pos(pos.x - n, pos.y - n, cameraPosition.z)
    IN  IF pos.z = iz /\ CanCoveredUp(shifted, n) THEN shifted
        ELSE IF pos.z = cameraPosition.z /\ ~CanCoveredUp(pos, n) THEN pos
        ELSE InvalidPosition
CellIx(pos, cameraPosition, iz) ==
    CellBase(pos, cameraPosition, iz).x - cameraPosition.x + m_virtualCenterOffset.x
CellIy(pos, cameraPosition, iz) ==
    CellBase(pos, cameraPosition, iz).y - cameraPosition.y + m_virtualCenterOffset.y
TilePositions == {t.pos : t \in world} \cup {creaturePos[c] : c \in Creatures}
\* positions of the drawable tiles the loops reach on floor iz
FloorVisited(cameraPosition, iz) ==
    {pos \in TilePositions :
        /\ IsValid(CellBase(pos, cameraPosition, iz))
        /\ CellVisited(CellIx(pos, cameraPosition, iz), CellIy(pos, cameraPosition, iz))
        /\ getTile(pos).drawable}
\* ... in the order the loops reach them: by diagonal, then by ix
Before(p, q, cameraPosition, iz) ==
    LET pd == CellIx(p, cameraPosition, iz) + CellIy(p, cameraPosition, iz)
        qd == CellIx(q, cameraPosition, iz) + CellIy(q, cameraPosition, iz)
    IN  pd < qd \/ (pd = qd /\ CellIx(p, cameraPosition, iz) <= CellIx(q, cameraPosition, iz))
RECURSIVE InLoopOrder(_, _, _)
InLoopOrder(S, cameraPosition, iz) ==
    IF S = {} THEN <<>>
    ELSE LET m == CHOOSE p \in S : \A q \in S : Before(p, q, cameraPosition, iz)
         IN  <<m>> \o InLoopOrder(S \ {m}, cameraPosition, iz)
FloorTiles(cameraPosition, iz) ==
    InLoopOrder(FloorVisited(cameraPosition, iz), cameraPosition, iz)

\* Position::isInRange and MapView::isInRange(pos)
PosInRange(center, pos, minX, maxX, minY, maxY) ==
    /\ pos.x >= center.x - minX /\ pos.x <= center.x + maxX
    /\ pos.y >= center.y - minY /\ pos.y <= center.y + maxY
    /\ pos.z = center.z
isInRange(cameraPosition, pos) ==
    PosInRange(cameraPosition, pos, m_awareRange.left - 1, m_awareRange.right - 2,
               m_awareRange.top - 1, m_awareRange.bottom - 2)

SelectTiles(tiles, Keep(_)) == SelectSeq(tiles, LAMBDA pos : Keep(getTile(pos)))
\* one floor's buckets, as the population loop fills them
BuildFloor(cameraPosition, iz, drawLights) ==
    LET tiles == FloorTiles(cameraPosition, iz)
    IN  [grounds |-> SelectTiles(tiles, LAMBDA t : t.ground),
         surfaces |-> SelectTiles(tiles, LAMBDA t : t.surface),
         effects |-> SelectTiles(tiles, LAMBDA t : isDrawingEffectsOnTop /\ t.effect),
         shades |-> SelectTiles(tiles, LAMBDA t : isDrawingLightsWith(drawLights) /\ t.shade)]
\* creatures collected on one floor: each tile's creatures, last first
RECURSIVE CollectCreatures(_, _, _)
CollectCreatures(tiles, i, cameraPosition) ==
    IF i > Len(tiles) THEN <<>>
    ELSE (IF isInRange(cameraPosition, tiles[i])
          THEN Reverse(TileCreatures(tiles[i])) ELSE <<>>)
         \o CollectCreatures(tiles, i + 1, cameraPosition)
\* the floors iz, iz-1, ..., first of the population loop
RECURSIVE CollectFloors(_, _, _)
CollectFloors(iz, first, cameraPosition) ==
    IF iz < first THEN <<>>
    ELSE CollectCreatures(FloorTiles(cameraPosition, iz), 1, cameraPosition)
         \o CollectFloors(iz - 1, first, cameraPosition)
\* lines 430-435 for one cached tile of floor iz: <<floorMin, floorMax>>
WidenOnce(iz, range) ==
    IF iz < range[1] THEN <<iz, range[2]>>
    ELSE IF iz > range[2] THEN <<range[1], iz>>
    ELSE range
\* ... for every cached tile of the floor (a third tile changes nothing more)
WidenFloor(iz, tiles, range) ==
    IF tiles = 0 THEN range
    ELSE IF tiles = 1 THEN WidenOnce(iz, range)
    ELSE WidenOnce(iz, WidenOnce(iz, range))
\* ... over the floors iz, iz-1, ..., first of the population loop
RECURSIVE WidenFloors(_, _, _, _)
WidenFloors(iz, first, cameraPosition, range) ==
    IF iz < first THEN range
    ELSE WidenFloors(iz - 1, first, cameraPosition,
                     WidenFloor(iz, Cardinality(FloorVisited(cameraPosition, iz)), range))

\* the cache clear loop (lines 315-317): do clear(floorMin) while (++floorMin <= floorMax)
ClearedTo(floorMin, floorMax) ==
    IF floorMin <= floorMax THEN floorMax + 1 ELSE floorMin + 1
\* lines 358: after a camera change the range restarts at the camera floor
ResetRange(moved, cameraPosition, floorMin, floorMax) ==
    IF moved THEN <<cameraPosition.z, cameraPosition.z>> ELSE <<floorMin, floorMax>>
\* lines 352-353
ForceLast(first, last) == IF last < first THEN first ELSE last

\* updateLight(): the ambient light handed to the light view
AmbientLightFor(cameraPosition) ==
    IF cameraPosition.z > SEA_FLOOR THEN "default" ELSE "map"

\* which of the three fade-restart branches a refresh takes (lines 367-382)
FadeCase(lastCamera, cameraPosition, prevFirst, newFirst) ==
    IF \/ ~IsValid(lastCamera) \/ lastCamera.z # cameraPosition.z
       \/ DistanceAtLeast3(lastCamera, cameraPosition)
    THEN "restart"
    ELSE IF prevFirst < newFirst THEN "hide"
    ELSE IF prevFirst > newFirst THEN "show"
    ELSE "none"

\* onFloorChange is called when the floor of the last camera differs (line 343)
FloorChanged_Never(lastCamera, cameraPosition) == FALSE
FloorChanged(lastCamera, cameraPosition) ==
    lastCamera # cameraPosition /\ lastCamera.z # cameraPosition.z

\* lines 323-327: the lock follows the floor view mode
LockedFor(cameraPosition) ==
    IF m_floorViewMode = "LOCKED" THEN ToInt8(cameraPosition.z) ELSE -1
\* lines 347-356: <<first, last>> visible floor, recomputed when the camera changed
RangeFor(cameraPosition, locked, first) ==
    <<first, ForceLast(first, calcLastVisibleFloor(locked, cameraPosition))>>
VisibleRange(cameraPosition, locked) ==
    IF m_lastCameraPosition # cameraPosition
    THEN RangeFor(cameraPosition, locked,
                  calcFirstVisibleFloor(m_floorViewMode # "ALWAYS", locked, cameraPosition))
    ELSE <<m_cachedFirstVisibleFloor, m_cachedLastVisibleFloor>>
\* lines 361-364: the first floor the timers and the cache are filled from
LocalFirst(cameraPosition, locked, first) ==
    IF m_floorViewMode = "ALWAYS_WITH_TRANSPARENCY" \/ canFloorFade
    THEN calcFirstVisibleFloor(FALSE, locked, cameraPosition)
    ELSE first
\* lines 367-382: the fade timers after the restarts
RemainingFade(iz) == TimerRestart(Max(0, m_floorFading - m_fadingFloorTimers[iz]) * 1000)
RestartTimers_FullOnHide(fadeCase, prevFirst, first, last, localFirst) ==
    [iz \in 0..MAX_Z |->
        IF fadeCase = "restart" /\ iz <= last /\ iz >= localFirst
        THEN TimerRestart(m_floorFading * 1000)
        ELSE IF fadeCase = "hide" /\ iz >= prevFirst /\ iz < first
        THEN TimerRestart(m_floorFading * 1000)
        ELSE IF fadeCase = "show" /\ iz >= first /\ iz < prevFirst
        THEN RemainingFade(iz)
        ELSE m_fadingFloorTimers[iz]]
RestartTimers(fadeCase, prevFirst, first, last, localFirst) ==
    [iz \in 0..MAX_Z |->
        IF fadeCase = "restart" /\ iz <= last /\ iz >= localFirst
        THEN TimerRestart(m_floorFading * 1000)
        ELSE IF fadeCase = "hide" /\ iz >= prevFirst /\ iz < first
        THEN RemainingFade(iz)
        ELSE IF fadeCase = "show" /\ iz >= first /\ iz < prevFirst
        THEN RemainingFade(iz)
        ELSE m_fadingFloorTimers[iz]]
\* lines 315-317: the buckets the clear loop empties
ClearedCache(z) ==
    IF z >= m_floorMin /\ z <= Max(m_floorMin, m_floorMax)
    THEN EmptyFloor ELSE m_cachedVisibleTiles[z]
AppendFloor(old, built) ==
    [grounds |-> old.grounds \o built.grounds,
     surfaces |-> old.surfaces \o built.surfaces,
     effects |-> old.effects \o built.effects,
     shades |-> old.shades \o built.shades]
\* lines 388-439: the cache after the population loop
PopulatedCache(cameraPosition, last, localFirst) ==
    [z \in 0..MAX_Z |->
        IF z <= last /\ z >= localFirst
        THEN AppendFloor(ClearedCache(z), BuildFloor(cameraPosition, z, m_drawLights))
        ELSE ClearedCache(z)]
\* lines 319-321, 407-412: the creature list after the refresh
CollectedCreatures(cameraPosition, refreshCreatures, last, localFirst) ==
    (IF m_refreshVisibleCreatures THEN <<>> ELSE m_visibleCreatures)
    \o (IF refreshCreatures THEN CollectFloors(last, localFirst, cameraPosition) ELSE <<>>)
\* lines 315-317, 358, 430-435: <<floorMin, floorMax>> after the refresh
WidenedRange(cameraPosition, range0, last, localFirst) ==
    WidenFloors(last, localFirst, cameraPosition, range0)
FloorRange(cameraPosition, last, localFirst) ==
    WidenedRange(cameraPosition,
                 ResetRange(m_lastCameraPosition # cameraPosition, cameraPosition,
                            ClearedTo(m_floorMin, m_floorMax), m_floorMax),
                 last, localFirst)

\* updateVisibleThings() with a valid camera: the values it leaves
Refreshed(cameraPosition, locked, first, last, localFirst, fadeCase, floorChanged, range) ==
    [refreshed |-> TRUE,
     floorMin |-> range[1],
     floorMax |-> range[2],
     locked |-> locked,
     first |-> first,
     last |-> last,
     localFirst |-> localFirst,
     fadeCase |-> fadeCase,
     floorChanged |-> floorChanged,
     lastCamera |-> cameraPosition,
     globalLight |-> IF floorChanged /\ m_drawLights
                     THEN AmbientLightFor(cameraPosition) ELSE globalLight,
     timers |-> RestartTimers(fadeCase, m_cachedFirstVisibleFloor, first, last, localFirst),
     lastFadeLevel |-> IF fadeCase = "show" THEN 0 ELSE m_lastFadeLevel,
     cache |-> PopulatedCache(cameraPosition, last, localFirst),
     creatures |-> CollectedCreatures(cameraPosition,
                                      m_refreshVisibleCreatures \/ floorChanged,
                                      last, localFirst),
     refreshCreatures |-> FALSE,
     refreshTiles |-> FALSE]
RefreshRange(cameraPosition, locked, first, last, localFirst) ==
    Refreshed(cameraPosition, locked, first, last, localFirst,
              FadeCase(m_lastCameraPosition, cameraPosition, m_cachedFirstVisibleFloor, first),
              FloorChanged(m_lastCameraPosition, cameraPosition),
              FloorRange(cameraPosition, last, localFirst))
RefreshLocked(cameraPosition, locked, range) ==
    RefreshRange(cameraPosition, locked, range[1], range[2],
                 LocalFirst(cameraPosition, locked, range[1]))
RefreshCamera(cameraPosition, locked) ==
    RefreshLocked(cameraPosition, locked, VisibleRange(cameraPosition, locked))
\* updateVisibleThings() returning at once: invalid camera (lines 310-312),
\* or not called at all because m_refreshVisibleTiles is clear (line 108)
NotRefreshed_RequestDropped ==
    [refreshed |-> FALSE,
     floorMin |-> m_floorMin,
     floorMax |-> m_floorMax,
     locked |-> m_lockedFirstVisibleFloor,
     first |-> m_cachedFirstVisibleFloor,
     last |-> m_cachedLastVisibleFloor,
     localFirst |-> m_cachedFirstVisibleFloor,
     fadeCase |-> "none",
     floorChanged |-> FALSE,
     lastCamera |-> m_lastCameraPosition,
     globalLight |-> globalLight,
     timers |-> m_fadingFloorTimers,
     lastFadeLevel |-> m_lastFadeLevel,
     cache |-> m_cachedVisibleTiles,
     creatures |-> m_visibleCreatures,
     refreshCreatures |-> m_refreshVisibleCreatures,
     refreshTiles |-> FALSE]
NotRefreshed ==
    [refreshed |-> FALSE,
     floorMin |-> m_floorMin,
     floorMax |-> m_floorMax,
     locked |-> m_lockedFirstVisibleFloor,
     first |-> m_cachedFirstVisibleFloor,
     last |-> m_cachedLastVisibleFloor,
     localFirst |-> m_cachedFirstVisibleFloor,
     fadeCase |-> "none",
     floorChanged |-> FALSE,
     lastCamera |-> m_lastCameraPosition,
     globalLight |-> globalLight,
     timers |-> m_fadingFloorTimers,
     lastFadeLevel |-> m_lastFadeLevel,
     cache |-> m_cachedVisibleTiles,
     creatures |-> m_visibleCreatures,
     refreshCreatures |-> m_refreshVisibleCreatures,
     refreshTiles |-> m_refreshVisibleTiles]
updateVisibleThings(cameraPosition) ==
    IF ~IsValid(cameraPosition) THEN NotRefreshed
    ELSE RefreshCamera(cameraPosition, LockedFor(cameraPosition))

(***************************************************************************)
(* Frame: calcFramebufferSource and draw                                    *)
(***************************************************************************)
\* TSize::scale(s, Fw::KeepAspectRatio)
ScaleKeepAspect(size, s) ==
    IF size.w = 0 \/ size.h = 0 THEN s
    ELSE LET rw == CDiv(s.h * size.w, size.h)
         IN  IF rw <= s.w THEN Size(rw, s.h)
             ELSE Size(s.w, CDiv(s.w * size.h, size.w))
\* Creature::getWalkOffset() of the followed creature (standing still)
WalkOffset == Point(0, 0)
calcFramebufferSource(destSize) ==
    LET base == Point(CDiv(m_drawDimension.w - m_visibleDimension.w - 1, 2) * m_tileSize,
                      CDiv(m_drawDimension.h - m_visibleDimension.h - 1, 2) * m_tileSize)
        pan == IF isFollowingCreature
               THEN Point(WalkOffset.x * m_scaleFactor, WalkOffset.y * m_scaleFactor)
               ELSE Point(m_moveOffset.x * m_scaleFactor, m_moveOffset.y * m_scaleFactor)
        srcVisible == Size(m_visibleDimension.w * m_tileSize, m_visibleDimension.h * m_tileSize)
        srcSize == ScaleKeepAspect(destSize, srcVisible)
    IN  [x |-> base.x + pan.x + CDiv(srcVisible.w - srcSize.w, 2),
         y |-> base.y + pan.y + CDiv(srcVisible.h - srcSize.h, 2),
         w |-> srcSize.w, h |-> srcSize.h]

\* getPosition(point, mapSize): the tile under a point of a map of that size.
\* (sh = srcRect.width() / float(mapSize.width()); point.x * sh is cut to int.)
TilePos2D_NoPad(centerOffset) ==
    Point(m_virtualCenterOffset.x - m_drawDimension.w + centerOffset.x,
          m_virtualCenterOffset.y - m_drawDimension.h + centerOffset.y)
TilePos2D(centerOffset) ==
    Point(m_virtualCenterOffset.x - m_drawDimension.w + centerOffset.x + 2,
          m_virtualCenterOffset.y - m_drawDimension.h + centerOffset.y + 2)
PositionAt(tilePos2D, cameraPosition) ==
    IF tilePos2D.x + cameraPosition.x < 0 /\ tilePos2D.y + cameraPosition.y < 0
    THEN InvalidPosition
    ELSE Pos(tilePos2D.x + cameraPosition.x, tilePos2D.y + cameraPosition.y,
             cameraPosition.z)
CenterOffsetOf(point, mapSize, srcRect) ==
    Point(CDiv(CDiv(point.x * srcRect.w, mapSize.w) + srcRect.x, m_tileSize),
          CDiv(CDiv(point.y * srcRect.h, mapSize.h) + srcRect.y, m_tileSize))
getPosition(point, mapSize) ==
    IF ~IsValid(getCameraPosition) THEN InvalidPosition
    ELSE PositionAt(TilePos2D(CenterOffsetOf(point, mapSize,
                                             calcFramebufferSource(mapSize))),
                    getCameraPosition)

\* lines 111-117: the memoized source rect
RectCacheFor(rect) ==
    IF m_rectCache.rect # rect
    THEN [rect |-> rect, srcRect |-> calcFramebufferSource(Size(rect.w, rect.h))]
    ELSE m_rectCache
\* lines 119-125: the fade-in notification fires
FadeInFinished_NoMemo(r) ==
    canFloorFade /\ FadeLevelIsOne(r.timers, r.first)
FadeInFinished(r) ==
    canFloorFade /\ r.lastFadeLevel # 1 /\ FadeLevelIsOne(r.timers, r.first)
\* getFadeLevel(z) == 0
FadeLevelIsZero(timers, z) == timers[z] = 0
\* g_map.getFloorMissiles(z): one missile in flight on the two floors at sea level
getFloorMissiles(z) == IF z = SEA_FLOOR \/ z = SEA_FLOOR - 1 THEN <<"missile">> ELSE <<>>
DrawCalls(z, layer, things) ==
    [i \in 1..Len(things) |-> [z |-> z, layer |-> layer, thing |-> things[i]]]
\* lines 157-192: one floor of drawFloor (every cached tile can be rendered)
DrawOneFloor(z, floor) ==
    DrawCalls(z, "ground", floor.grounds) \o DrawCalls(z, "surface", floor.surfaces)
    \o DrawCalls(z, "effect", floor.effects) \o DrawCalls(z, "missile", getFloorMissiles(z))
\* lines 146-223: the floor loop, from z down to floorMin
RECURSIVE DrawFloors_NoFadeStop(_, _, _, _)
DrawFloors_NoFadeStop(z, floorMin, cache, timers) ==
    IF z < floorMin THEN <<>>
    ELSE DrawOneFloor(z, cache[z]) \o DrawFloors_NoFadeStop(z - 1, floorMin, cache, timers)
RECURSIVE DrawFloors(_, _, _, _)
DrawFloors(z, floorMin, cache, timers) ==
    IF z < floorMin THEN <<>>
    ELSE IF canFloorFade /\ FadeLevelIsZero(timers, z) THEN <<>>
    ELSE DrawOneFloor(z, cache[z]) \o DrawFloors(z - 1, floorMin, cache, timers)
drawFloor(r) == DrawFloors(r.floorMax, r.floorMin, r.cache, r.timers)
\* lines 147-152, 199-222: what each floor iteration that draws does to the
\* pool: whether it sets the floor's fade opacity, and whether it reaches
\* resetOpacity and flush or leaves through the continue of the light block
RECURSIVE PoolFloors(_, _, _)
PoolFloors(z, floorMin, timers) ==
    IF z < floorMin THEN <<>>
    ELSE IF canFloorFade /\ FadeLevelIsZero(timers, z) THEN <<>>
    ELSE LET nextFloor == ToInt8(z - 1)
             skipped == /\ isDrawingLightsWith(m_drawLights)
                        /\ nextFloor >= floorMin
                        /\ canFloorFade /\ FadeLevelIsZero(timers, nextFloor)
         IN  << [z |-> z,
                 setOpacity |-> canFloorFade /\ ~FadeLevelIsOne(timers, z),
                 resetOpacity |-> canFloorFade /\ ~skipped,
                 flushed |-> ~skipped] >>
             \o PoolFloors(z - 1, floorMin, timers)
\* lines 127-136: the passes of a frame
PassesFor_All(cameraPosition) ==
    {"floor", "creatureInformation", "text"} \cup (IF m_drawLights THEN {"light"} ELSE {})
PassesFor(cameraPosition) ==
    IF ~IsValid(cameraPosition) THEN {"floor"}
    ELSE {"floor", "creatureInformation", "text"} \cup (IF m_drawLights THEN {"light"} ELSE {})
\* draw(rect) after the refresh left r.
\* (The mouse highlight is left out.)
drawFrame(rect, r, fadeInFinished) ==
    /\ m_floorMin' = r.floorMin
    /\ m_floorMax' = r.floorMax
    /\ m_cachedVisibleTiles' = r.cache
    /\ m_visibleCreatures' = r.creatures
    /\ m_lockedFirstVisibleFloor' = r.locked
    /\ m_cachedFirstVisibleFloor' = r.first
    /\ m_cachedLastVisibleFloor' = r.last
    /\ m_fadingFloorTimers' = r.timers
    /\ m_lastCameraPosition' = r.lastCamera
    /\ globalLight' = r.globalLight
    /\ m_refreshVisibleCreatures' = r.refreshCreatures
    /\ m_refreshVisibleTiles' = (fadeInFinished \/ r.refreshTiles)
    /\ m_lastFadeLevel' = IF fadeInFinished THEN 1 ELSE r.lastFadeLevel
    /\ m_rectCache' = RectCacheFor(rect)
    /\ ev' = [Event("draw") EXCEPT
                !.refreshed = r.refreshed,
                !.pool = PoolFloors(r.floorMax, r.floorMin, r.timers),
                !.floorChange = IF r.floorChanged THEN 1 ELSE 0,
                !.refreshCreatures = IF r.floorChanged THEN 1 ELSE 0,
                !.updateLight = IF r.floorChanged THEN 1 ELSE 0,
                !.fadeCase = r.fadeCase,
                !.fadeInFinished = fadeInFinished,
                !.passes = PassesFor(getCameraPosition),
                !.drawn = drawFloor(r),
                !.seenFloor = IF r.refreshed THEN r.lastCamera.z ELSE ev.seenFloor]
    /\ UNCHANGED <<geomVars, cameraVars, m_floorViewMode, m_floorFading,
                   shaderVars, m_drawLights, worldVars>>
drawRefreshed(rect, r) == drawFrame(rect, r, FadeInFinished(r))
\* (m_cachedVisibleTiles has MAX_Z + 1 buckets: a refresh whose clear loop would
\* start past the last one is not followed.)
draw(rect) ==
    /\ m_floorMin <= MAX_Z
    /\ Len(m_visibleCreatures) <= MaxListed
    /\ drawRefreshed(rect, IF m_refreshVisibleTiles
                           THEN updateVisibleThings(getCameraPosition)
                           ELSE NotRefreshed)

(***************************************************************************)
(* Camera and floor configuration                                           *)
(***************************************************************************)
setCameraPosition(pos) ==
    /\ m_follow' = FALSE
    /\ m_customCameraPosition' = pos
    /\ m_refreshVisibleTiles' = TRUE
    /\ ev' = Event("setCameraPosition")
    /\ UNCHANGED <<geomVars, m_rectCache, m_refreshVisibleCreatures,
                   m_followingCreature, m_moveOffset, m_lastCameraPosition,
                   floorVars, fadeVars, shaderVars, lightVars, worldVars>>

followCreature(creature) ==
    /\ m_follow' = TRUE
    /\ m_followingCreature' = creature
    /\ m_lastCameraPosition' = InvalidPosition
    /\ m_refreshVisibleTiles' = TRUE
    /\ ev' = Event("followCreature")
    /\ UNCHANGED <<geomVars, m_rectCache, m_refreshVisibleCreatures,
                   m_customCameraPosition, m_moveOffset,
                   floorVars, fadeVars, shaderVars, lightVars, worldVars>>

\* resetLastCamera()
resetLastCamera == InvalidPosition

setFloorViewMode(floorViewMode) ==
    /\ m_floorViewMode' = floorViewMode
    /\ m_lastCameraPosition' = resetLastCamera
    /\ m_refreshVisibleTiles' = TRUE
    /\ ev' = Event("setFloorViewMode")
    /\ UNCHANGED <<geomVars, m_rectCache, m_refreshVisibleCreatures, cameraVars,
                   m_lockedFirstVisibleFloor, m_cachedFirstVisibleFloor,
                   m_cachedLastVisibleFloor, m_floorMin, m_floorMax,
                   m_cachedVisibleTiles, m_visibleCreatures,
                   fadeVars, shaderVars, lightVars, worldVars>>

lockFirstVisibleFloor(firstVisibleFloor) ==
    /\ m_lockedFirstVisibleFloor' = ToInt8(firstVisibleFloor)
    /\ m_refreshVisibleTiles' = TRUE
    /\ ev' = [Event("lockFirstVisibleFloor") EXCEPT
                !.manualLock = ToInt8(firstVisibleFloor)]
    /\ UNCHANGED <<geomVars, m_rectCache, m_refreshVisibleCreatures, cameraVars,
                   m_lastCameraPosition, m_floorViewMode, m_cachedFirstVisibleFloor,
                   m_cachedLastVisibleFloor, m_floorMin, m_floorMax,
                   m_cachedVisibleTiles, m_visibleCreatures,
                   fadeVars, shaderVars, lightVars, worldVars>>

unlockFirstVisibleFloor ==
    /\ m_lockedFirstVisibleFloor' = -1
    /\ m_refreshVisibleTiles' = TRUE
    /\ ev' = [Event("unlockFirstVisibleFloor") EXCEPT !.manualLock = -1]
    /\ UNCHANGED <<geomVars, m_rectCache, m_refreshVisibleCreatures, cameraVars,
                   m_lastCameraPosition, m_floorViewMode, m_cachedFirstVisibleFloor,
                   m_cachedLastVisibleFloor, m_floorMin, m_floorMax,
                   m_cachedVisibleTiles, m_visibleCreatures,
                   fadeVars, shaderVars, lightVars, worldVars>>

\* setFloorFading(value)
setFloorFading(value) ==
    /\ m_floorFading' = value
    /\ ev' = Event("setFloorFading")
    /\ UNCHANGED <<geomVars, m_rectCache, flagVars, cameraVars, m_lastCameraPosition,
                   floorVars, m_fadingFloorTimers, m_lastFadeLevel,
                   shaderVars, lightVars, worldVars>>

setDrawLights(enable) ==
    /\ ev' = [Event("setDrawLights") EXCEPT
                !.updateLight = IF enable = m_drawLights THEN 0 ELSE 1]
    /\ m_drawLights' = enable
    /\ globalLight' = IF enable # m_drawLights /\ enable
                      THEN AmbientLightFor(getCameraPosition) ELSE globalLight
    /\ UNCHANGED <<geomVars, m_rectCache, flagVars, cameraVars, m_lastCameraPosition,
                   floorVars, fadeVars, shaderVars, worldVars>>

(***************************************************************************)
(* World notifications                                                      *)
(***************************************************************************)
\* onTileUpdate(pos, thing, operation)
onTileUpdate_NoCreatureFlag(thingIsCreature) ==
    /\ m_refreshVisibleTiles' = TRUE
    /\ UNCHANGED <<geomVars, m_rectCache, m_refreshVisibleCreatures, cameraVars,
                   m_lastCameraPosition, floorVars, fadeVars, shaderVars, lightVars>>
onTileUpdate(thingIsCreature) ==
    /\ m_refreshVisibleCreatures' = (thingIsCreature \/ m_refreshVisibleCreatures)
    /\ m_refreshVisibleTiles' = TRUE
    /\ UNCHANGED <<geomVars, m_rectCache, cameraVars, m_lastCameraPosition,
                   floorVars, fadeVars, shaderVars, lightVars>>

\* the world adds or removes an item tile and notifies the view
TileChanged(tile) ==
    /\ world' = IF tile \in world THEN world \ {tile} ELSE world \cup {tile}
    /\ UNCHANGED creaturePos
    /\ ev' = Event("onTileUpdate")
    /\ onTileUpdate(FALSE)

\* a creature steps to another position; the world notifies the view
CreatureMoved(creature, pos) ==
    /\ creaturePos[creature] # pos
    /\ creaturePos' = [creaturePos EXCEPT ![creature] = pos]
    /\ UNCHANGED world
    /\ ev' = [Event("onTileUpdate") EXCEPT !.refreshCreatures = 1]
    /\ onTileUpdate(TRUE)

onMapCenterChange ==
    /\ m_refreshVisibleTiles' = TRUE
    /\ ev' = Event("onMapCenterChange")
    /\ UNCHANGED <<geomVars, m_rectCache, m_refreshVisibleCreatures, cameraVars,
                   m_lastCameraPosition, floorVars, fadeVars, shaderVars,
                   lightVars, worldVars>>


(***************************************************************************)
(* Relative pixel pan: move / onCameraMove                                  *)
(***************************************************************************)
\* one axis of move(): <<camera coordinate, residual offset, shifted>>
MoveAxis_KeepOffset(coordinate, offset, delta) ==
    LET sum == offset + delta
        tmp == CDiv(sum, SPRITE_SIZE)
    IN  IF tmp # 0 THEN <<coordinate + tmp, sum, TRUE>>
        ELSE <<coordinate, sum, FALSE>>
MoveAxis(coordinate, offset, delta) ==
    LET sum == offset + delta
        tmp == CDiv(sum, SPRITE_SIZE)
    IN  IF tmp # 0 THEN <<coordinate + tmp, CRem(sum, SPRITE_SIZE), TRUE>>
        ELSE <<coordinate, sum, FALSE>>

move(x, y) ==
    LET ax == MoveAxis(m_customCameraPosition.x, m_moveOffset.x, x)
        ay == MoveAxis(m_customCameraPosition.y, m_moveOffset.y, y)
    IN  /\ Abs(ax[1] - HomeX) <= MaxPan /\ Abs(ay[1] - HomeY) <= MaxPan
        /\ m_moveOffset' = Point(ax[2], ay[2])
        /\ m_customCameraPosition' = Pos(ax[1], ay[1], m_customCameraPosition.z)
        /\ m_rectCache' = [m_rectCache EXCEPT !.rect = NoRect]
        /\ m_refreshVisibleTiles' = (ax[3] \/ ay[3] \/ m_refreshVisibleTiles)
        /\ ev' = Event("move")
        /\ UNCHANGED <<geomVars, m_refreshVisibleCreatures, m_follow,
                       m_followingCreature, m_lastCameraPosition, floorVars,
                       fadeVars, shaderVars, lightVars, worldVars>>

(***************************************************************************)
(* Shader crossfade: setShader and the map pool's before-draw hook          *)
(***************************************************************************)
setShader(shader, fadein, fadeout) ==
    /\ ev' = [Event("setShader") EXCEPT !.requested = shader]
    /\ UNCHANGED <<geomVars, m_rectCache, flagVars, cameraVars, m_lastCameraPosition,
                   floorVars, fadeVars, lightVars, worldVars>>
    /\ IF m_shader = shader
       THEN UNCHANGED shaderVars
       ELSE /\ IF fadeout > 0 /\ m_shader # NoShader
               THEN /\ m_nextShader' = shader
                    /\ m_shaderSwitchDone' = FALSE
                    /\ UNCHANGED m_shader
               ELSE /\ m_shader' = shader
                    /\ m_nextShader' = NoShader
                    /\ m_shaderSwitchDone' = TRUE
            /\ m_fadeTimer' = 0
            /\ m_fadeInTime' = fadein
            /\ m_fadeOutTime' = fadeout

\* fadeOpacity = 1 - elapsed / fadeOutTime has gone below zero
FadeOutOver_AtZero(elapsed, fadeOutTime) == elapsed >= fadeOutTime
FadeOutOver(elapsed, fadeOutTime) == elapsed > fadeOutTime

\* the fadeOpacity the hook hands to g_painter->setOpacity, as
\* <<numerator, denominator>>: 1, overwritten by 1 - elapsed / fadeOutTime
\* while the switch is not done, overwritten by min(elapsed / fadeInTime, 1)
\* once the switch is done with a shader and a fade-in time
HookOpacity(fadingOut, elapsedOut, fadeOutTime, fadingIn, elapsedIn, fadeInTime) ==
    IF fadingIn THEN <<Min(elapsedIn, fadeInTime), fadeInTime>>
    ELSE IF fadingOut THEN <<fadeOutTime - elapsedOut, fadeOutTime>>
    ELSE <<1, 1>>

\* mapPool->onBeforeDraw: runs once in every frame that draws the map pool
onBeforeDraw ==
    LET fadingOut == ~m_shaderSwitchDone /\ m_fadeOutTime > 0
        swap == fadingOut /\ FadeOutOver(m_fadeTimer, m_fadeOutTime)
    IN  /\ m_shader' = IF swap THEN m_nextShader ELSE m_shader
        /\ m_nextShader' = IF swap THEN NoShader ELSE m_nextShader
        /\ m_shaderSwitchDone' = (swap \/ m_shaderSwitchDone)
        /\ m_fadeTimer' = IF swap THEN 0 ELSE m_fadeTimer
        /\ ev' = [Event("onBeforeDraw") EXCEPT !.opacity =
                    HookOpacity(fadingOut, m_fadeTimer, m_fadeOutTime,
                                m_shaderSwitchDone' /\ m_shader' # NoShader
                                    /\ m_fadeInTime > 0,
                                m_fadeTimer', m_fadeInTime)]
        /\ UNCHANGED <<geomVars, m_rectCache, flagVars, cameraVars, m_lastCameraPosition,
                       floorVars, fadeVars, m_fadeInTime, m_fadeOutTime,
                       lightVars, worldVars>>

(***************************************************************************)
(* The clock: every running timer advances by one tick                      *)
(***************************************************************************)
Tick ==
    /\ m_fadeTimer < MaxElapsed \/ \E z \in 0..MAX_Z : m_fadingFloorTimers[z] < MaxElapsed
    /\ m_fadeTimer' = Min(m_fadeTimer + 1, MaxElapsed)
    /\ m_fadingFloorTimers' = [z \in 0..MAX_Z |-> Min(m_fadingFloorTimers[z] + 1, MaxElapsed)]
    /\ ev' = Event("tick")
    /\ UNCHANGED <<geomVars, m_rectCache, flagVars, cameraVars, m_lastCameraPosition,
                   floorVars, m_floorFading, m_lastFadeLevel, m_shader, m_nextShader,
                   m_shaderSwitchDone, m_fadeInTime, m_fadeOutTime, lightVars, worldVars>>

(***************************************************************************)
(* The state after MapView::MapView()                                       *)
(***************************************************************************)
\* ... followed by setFloorFading(floorFading)
InitWith(floorFading) ==
    /\ m_scaleFactor = 1
    /\ m_visibleDimension = Size(15, 11)
    /\ m_drawDimension = DrawDimensionOf(Size(15, 11))
    /\ m_tileSize = TileSizeOf(1)
    /\ m_virtualCenterOffset = Point(8, 6)
    /\ m_rectDimension = BufferSizeOf(Size(15, 11), 1)
    /\ m_awareRange = [left |-> 8, top |-> 6, bottom |-> 7, right |-> 9]
    /\ m_rectCache = [rect |-> NoRect, srcRect |-> NoRect]
    /\ m_refreshVisibleTiles = TRUE
    /\ m_refreshVisibleCreatures = TRUE
    /\ m_follow = TRUE
    /\ m_followingCreature = NoCreature
    /\ m_customCameraPosition = InvalidPosition
    /\ m_moveOffset = Point(0, 0)
    /\ m_lastCameraPosition = InvalidPosition
    /\ m_floorViewMode = "NORMAL"
    /\ m_lockedFirstVisibleFloor = -1
    /\ m_cachedFirstVisibleFloor = SEA_FLOOR
    /\ m_cachedLastVisibleFloor = SEA_FLOOR
    /\ m_floorMin = 0
    /\ m_floorMax = 0
    /\ m_cachedVisibleTiles = [z \in 0..MAX_Z |-> EmptyFloor]
    /\ m_visibleCreatures = <<>>
    /\ m_floorFading = floorFading
    /\ m_fadingFloorTimers = [z \in 0..MAX_Z |-> 0]
    /\ m_lastFadeLevel = 1
    /\ m_shader = DefaultMapShader
    /\ m_nextShader = NoShader
    /\ m_shaderSwitchDone = TRUE
    /\ m_fadeTimer = 0
    /\ m_fadeInTime = 0
    /\ m_fadeOutTime = 0
    /\ m_drawLights = FALSE
    /\ globalLight = "none"
    /\ world = {TGround7}
    /\ creaturePos = [c \in Creatures |-> Pos(HomeX, HomeY, SEA_FLOOR)]
    /\ ev = EventWith("MapView", NoFloor)
Init == InitWith(DefaultFloorFading)

(***************************************************************************)
(* Specifications                                                           *)
(***************************************************************************)
HomeCamera == Pos(HomeX, HomeY, SEA_FLOOR)
FrameRect == [x |-> 0, y |-> 0, w |-> 480, h |-> 352]

\* geometry configuration, with frames in between
NextGeometry ==
    \/ \E w \in DimWidths, h \in DimHeights : setVisibleDimension(Size(w, h))
    \/ \E mode \in AntialiasingModes : setAntiAliasingMode(mode)
    \/ setCameraPosition(HomeCamera)
    \/ draw(FrameRect)
SpecGeometry == Init /\ [][NextGeometry]_vars

(***************************************************************************)
(* Geometry properties                                                      *)
(***************************************************************************)
IsOdd(n) == n % 2 = 1
\* D + 3 tiles of the size updateGeometry computes fit the texture on both axes
FitsTexture(w, h) ==
    /\ (w + 3) * (SPRITE_SIZE * m_scaleFactor) <= MaxTextureSize
    /\ (h + 3) * (SPRITE_SIZE * m_scaleFactor) <= MaxTextureSize

\* C1: setVisibleDimension(D) with D odd and >= 3 on both axes and (D + 3) tiles
\* within the maximum texture size leaves visibleDimension = D and
\* drawDimension = D + 3, from every reachable state.
C1_ValidDimensionApplied ==
    [][\A w \in DimWidths, h \in DimHeights :
          (/\ IsOdd(w) /\ IsOdd(h) /\ w >= 3 /\ h >= 3
           /\ FitsTexture(w, h)
           /\ setVisibleDimension(Size(w, h)))
          => /\ m_visibleDimension' = Size(w, h)
             /\ m_drawDimension' = Size(w + 3, h + 3)]_vars
\* a call changed the dimension, here to 13 x 29 at scale 1
C1_Witness ==
    /\ ev.op = "setVisibleDimension" /\ ev.outcome = "done"
    /\ m_visibleDimension = Size(13, 29)
    /\ m_drawDimension = Size(16, 32)

\* C2: setVisibleDimension(D) with an even component or a component below 3
\* changes none of visibleDimension, drawDimension, tile size, virtual center
\* offset, aware range and the two refresh flags.
C2_InvalidDimensionRejected ==
    [][\A w \in DimWidths, h \in DimHeights :
          (/\ (~IsOdd(w) \/ ~IsOdd(h) \/ w < 3 \/ h < 3)
           /\ setVisibleDimension(Size(w, h)))
          => UNCHANGED <<m_visibleDimension, m_drawDimension, m_tileSize,
                         m_virtualCenterOffset, m_awareRange,
                         m_refreshVisibleTiles, m_refreshVisibleCreatures>>]_vars
\* a call was rejected while both refresh flags were clear
C2_Witness ==
    /\ ev.op = "setVisibleDimension" /\ ev.outcome = "rejected"
    /\ ~m_refreshVisibleTiles /\ ~m_refreshVisibleCreatures

\* the map widget covers the visible tiles exactly; its center point
ViewportSize == Size(m_visibleDimension.w * m_tileSize, m_visibleDimension.h * m_tileSize)
ViewportCenter == Point(CDiv(ViewportSize.w, 2), CDiv(ViewportSize.h, 2))
\* C17: for every valid odd visible dimension, with no walk or pan offset and a
\* map size of visibleDimension * tileSize, getPosition of the center point of
\* the viewport is within one tile of the camera in x and y, on the camera floor.
C17_CenterRoundTrip ==
    (IsValid(getCameraPosition) /\ m_moveOffset = Point(0, 0))
    => LET position == getPosition(ViewportCenter, ViewportSize)
       IN  /\ Abs(position.x - getCameraPosition.x) <= 1
           /\ Abs(position.y - getCameraPosition.y) <= 1
           /\ position.z = getCameraPosition.z
\* the center of a 13 x 13 view with tiles of twice the sprite size is the camera tile
C17_Witness ==
    /\ IsValid(getCameraPosition) /\ m_moveOffset = Point(0, 0)
    /\ m_visibleDimension = Size(13, 13) /\ m_tileSize = 2 * SPRITE_SIZE
    /\ getPosition(ViewportCenter, ViewportSize) = getCameraPosition

\* C3: a configuration call that would exceed the maximum texture size changes
\* nothing, the scale factor included, so the tile size is SPRITE_SIZE times the
\* scale factor in every reachable state.
C3_TileSizeFollowsScale == m_tileSize = SPRITE_SIZE * m_scaleFactor


(***************************************************************************)
(* Floor range and refresh                                                  *)
(***************************************************************************)
FloorCameraZs == {0, SEA_FLOOR, UNDERGROUND_FLOOR, MAX_Z - 1}
FloorCameras == {Pos(HomeX, HomeY, z) : z \in FloorCameraZs}
NextFloors ==
    \/ \E pos \in FloorCameras : setCameraPosition(pos)
    \/ \E creature \in Creatures : followCreature(creature)
    \/ \E mode \in FloorViewModes : setFloorViewMode(mode)
    \/ TileChanged(TRoof6)
    \/ onMapCenterChange
    \/ draw(FrameRect)
\* the view with floor fading turned off
InitFloors == InitWith(0)
SpecFloors == InitFloors /\ [][NextFloors]_vars

\* camera floors on both sides of every boundary of the range formula, with and
\* without a roof over the camera, with and without the lock mode
RangeModes == {"NORMAL", "LOCKED"}
RangeCameraZs == {0, SEA_FLOOR - 1, SEA_FLOOR, UNDERGROUND_FLOOR, UNDERGROUND_FLOOR + 1,
                  UNDERGROUND_FLOOR + 2, UNDERGROUND_FLOOR + 3, MAX_Z - 2, MAX_Z - 1, MAX_Z}
RangeCameras == {Pos(HomeX, HomeY, z) : z \in RangeCameraZs}
NextRange ==
    \/ \E pos \in RangeCameras : setCameraPosition(pos)
    \/ \E mode \in RangeModes : setFloorViewMode(mode)
    \/ TileChanged(TRoof6)
    \/ draw(FrameRect)
SpecRange == InitFloors /\ [][NextRange]_vars

\* the step is a frame in which updateVisibleThings ran to its end
RefreshStep == ev'.op = "draw" /\ ev'.refreshed

\* C4: after a refresh with a valid camera,
\* 0 <= cachedFirstVisibleFloor <= cachedLastVisibleFloor <= MAX_Z.
C4_CachedRangeOrdered ==
    ev.refreshed =>
        /\ 0 <= m_cachedFirstVisibleFloor
        /\ m_cachedFirstVisibleFloor <= m_cachedLastVisibleFloor
        /\ m_cachedLastVisibleFloor <= MAX_Z
\* a refresh in LOCKED mode at the deepest floor but one, where the last floor
\* z + 2 is past MAX_Z before the clamp
C4_Witness ==
    /\ ev.refreshed /\ m_floorViewMode = "LOCKED"
    /\ getCameraPosition.z = MAX_Z - 1
    /\ m_lockedFirstVisibleFloor = MAX_Z - 1
    /\ m_cachedFirstVisibleFloor = MAX_Z - 1
    /\ m_cachedLastVisibleFloor = MAX_Z

\* C5: after every completed refresh floorMin <= camera floor <= floorMax, also
\* when the camera has not moved since the previous refresh and when no
\* drawable tile is found.
C5_CameraFloorInRange ==
    ev.refreshed =>
        /\ m_floorMin <= getCameraPosition.z
        /\ getCameraPosition.z <= m_floorMax

ExpectedFirst(z) == IF z <= SEA_FLOOR THEN 0 ELSE Max(z - 2, UNDERGROUND_FLOOR)
ExpectedLast(z) == IF z <= SEA_FLOOR THEN SEA_FLOOR ELSE Min(z + 2, MAX_Z)
\* no tile on a floor of the range above the camera floor limits the view
NoLimitingTile(cameraPosition) ==
    \A t \in world :
        (t.pos.z < cameraPosition.z /\ t.pos.z >= ExpectedFirst(cameraPosition.z))
        => ~t.limitsFree /\ ~t.limitsBlocked
\* C6: a refresh that computes the floor range with no lock and no floor-limiting
\* tile around the camera leaves first = 0 and last = SEA_FLOOR for a camera floor
\* z <= SEA_FLOOR, and first = max(z - 2, UNDERGROUND_FLOOR), last = min(z + 2, MAX_Z)
\* for z > SEA_FLOOR.
C6_UnobstructedRange ==
    [][(/\ RefreshStep
        /\ m_lastCameraPosition # getCameraPosition
        /\ m_floorViewMode # "LOCKED"
        /\ NoLimitingTile(getCameraPosition))
       => /\ m_cachedFirstVisibleFloor' = ExpectedFirst(getCameraPosition.z)
          /\ m_cachedLastVisibleFloor' = ExpectedLast(getCameraPosition.z)]_vars
\* an underground camera at floor 14: first 12, last clamped to MAX_Z
C6_Witness ==
    /\ ev.refreshed /\ m_floorViewMode = "NORMAL"
    /\ getCameraPosition.z = 14
    /\ m_lastCameraPosition = getCameraPosition
    /\ m_cachedFirstVisibleFloor = 12 /\ m_cachedLastVisibleFloor = MAX_Z

\* C10 as stated: a refresh calls onFloorChange exactly once when the camera floor
\* differs from the one the previous refresh saw, and not at all when it is the same.
C10_FloorChangeIffFloorDiffers ==
    [][(RefreshStep /\ ev.seenFloor # NoFloor)
       => ev'.floorChange = (IF ev.seenFloor # getCameraPosition.z THEN 1 ELSE 0)]_vars
\* C10 amended: a refresh calls onFloorChange exactly once, with one creature
\* refresh request and one updateLight, when the camera floor differs from the
\* one the previous refresh saw, or when followCreature or setFloorViewMode has
\* reset the last camera position since; otherwise it does not call it.
C10_FloorChangeOnce ==
    [][RefreshStep
       => /\ ev'.floorChange =
                (IF \/ ev.seenFloor # getCameraPosition.z
                    \/ ~IsValid(m_lastCameraPosition)
                 THEN 1 ELSE 0)
          /\ ev'.refreshCreatures = ev'.floorChange
          /\ ev'.updateLight = ev'.floorChange]_vars
\* a refresh that saw floor 8 right after creatures had been listed on floor 7
\* called onFloorChange
C10_Witness ==
    /\ ev.refreshed /\ ev.floorChange = 1 /\ ev.seenFloor = UNDERGROUND_FLOOR
    /\ m_floorViewMode = "NORMAL"
    /\ m_visibleCreatures # <<>>

(***************************************************************************)
(* Relative pixel pan                                                       *)
(***************************************************************************)
MoveXs == {-MaxDelta, -10, 10, SPRITE_SIZE}
MoveYs == {0, MaxDelta}
NextMove ==
    \/ setCameraPosition(HomeCamera)
    \/ \E x \in MoveXs, y \in MoveYs : move(x, y)
SpecMove == Init /\ [][NextMove]_vars

\* pixels from the origin to the camera along each axis
PanX == m_customCameraPosition.x * SPRITE_SIZE + m_moveOffset.x
PanY == m_customCameraPosition.y * SPRITE_SIZE + m_moveOffset.y
\* C7: move(x, y) changes customCamera * SPRITE_SIZE + moveOffset by exactly
\* (x, y) and leaves |moveOffset| < SPRITE_SIZE on both axes; move(SPRITE_SIZE, 0)
\* from zero residual shifts the camera one tile in x with residual 0, and
\* move(10, 0) from zero residual leaves the tile and a residual of 10.
C7_MoveConservesPan ==
    [][\A x \in MoveXs, y \in MoveYs :
          move(x, y)
          => /\ PanX' = PanX + x /\ PanY' = PanY + y
             /\ Abs(m_moveOffset'.x) < SPRITE_SIZE /\ Abs(m_moveOffset'.y) < SPRITE_SIZE
             /\ (x = SPRITE_SIZE /\ y = 0 /\ m_moveOffset = Point(0, 0))
                => /\ m_customCameraPosition'.x = m_customCameraPosition.x + 1
                   /\ m_moveOffset' = Point(0, 0)
             /\ (x = 10 /\ y = 0 /\ m_moveOffset = Point(0, 0))
                => /\ m_customCameraPosition' = m_customCameraPosition
                   /\ m_moveOffset' = Point(10, 0)]_vars
\* moves to the left carried the camera one tile with a negative residual
C7_Witness ==
    /\ ev.op = "move"
    /\ m_customCameraPosition.x = HomeX - 1 /\ m_moveOffset.x = -28
    /\ m_customCameraPosition.y = HomeY /\ m_moveOffset.y = 0

(***************************************************************************)
(* Shader crossfade                                                         *)
(***************************************************************************)
NextShader ==
    \/ \E shader \in Shaders, fadein \in FadeTimes, fadeout \in FadeTimes :
          setShader(shader, fadein, fadeout)
    \/ onBeforeDraw
    \/ Tick
SpecShader == Init /\ [][NextShader]_vars

\* setShader(shader, fadein, fadeout) enters the fading-out state
EntersFadingOut(shader) ==
    /\ m_shader' = m_shader /\ m_nextShader' = shader
    /\ ~m_shaderSwitchDone' /\ m_fadeTimer' = 0
\* the hook swaps the shaders and starts the fade-in
Swaps ==
    /\ m_shader' = m_nextShader /\ m_nextShader' = NoShader
    /\ m_shaderSwitchDone' /\ m_fadeTimer' = 0
FadingOut == ~m_shaderSwitchDone /\ m_fadeOutTime > 0
HookStep == ev'.op = "onBeforeDraw"
SetShaderEntersFadingOut ==
    \A shader \in Shaders, fadein \in FadeTimes, fadeout \in FadeTimes :
        (/\ fadeout > 0 /\ m_shader # NoShader /\ shader # m_shader
         /\ setShader(shader, fadein, fadeout))
        => EntersFadingOut(shader)
\* C8 as stated: setShader with fadeout > 0 while another shader is active
\* enters the fading-out state, and the hook swaps the shaders in the first
\* frame in which it observes elapsed >= fadeOutTime.
C8_SwapAtFadeOutTime ==
    [][/\ SetShaderEntersFadingOut
       /\ (HookStep /\ FadingOut /\ m_fadeTimer >= m_fadeOutTime) => Swaps]_vars
\* C8 amended: setShader with fadeout > 0 while another shader is active enters
\* the fading-out state, and the hook swaps the shaders in the first frame in
\* which it observes elapsed > fadeOutTime; until then, elapsed = fadeOutTime
\* included, it leaves the shader state alone.
C8_SwapAfterFadeOutTime ==
    [][/\ SetShaderEntersFadingOut
       /\ (HookStep /\ FadingOut /\ m_fadeTimer > m_fadeOutTime) => Swaps
       /\ (HookStep /\ FadingOut /\ m_fadeTimer <= m_fadeOutTime)
          => UNCHANGED shaderVars]_vars
\* the hook has swapped to shader 2 after a fade-out of 2 ticks
C8_Witness ==
    /\ ev.op = "onBeforeDraw"
    /\ m_shader = 2 /\ m_nextShader = NoShader /\ m_shaderSwitchDone
    /\ m_fadeOutTime = 2 /\ m_fadeTimer = 0

(***************************************************************************)
(* Floor fade                                                               *)
(***************************************************************************)
FadeCameras == {Pos(x, HomeY, SEA_FLOOR) : x \in CameraXs}
NextFade ==
    \/ \E pos \in FadeCameras : setCameraPosition(pos)
    \/ TileChanged(TRoof6)
    \/ \E value \in FloorFadingValues : setFloorFading(value)
    \/ draw(FrameRect)
    \/ Tick
SpecFade == Init /\ [][NextFade]_vars

FrameStep == ev'.op = "draw"
\* the frame's refresh moved the first visible floor up
RevealStep == RefreshStep /\ m_cachedFirstVisibleFloor' < m_cachedFirstVisibleFloor
\* after the frame the first visible floor is at fade level 1
FadedInAfter == FadeLevelIsOne(m_fadingFloorTimers', m_cachedFirstVisibleFloor')
\* C9 as stated, in the frame of the reveal: with floor fading enabled, a frame
\* whose refresh moved the first visible floor up, the camera staying on the
\* floor of the previous refresh, and which finds the first visible floor at
\* fade level 1 calls onFadeInFinished.
C9_RevealNotifies ==
    [][(/\ FrameStep /\ canFloorFade /\ RevealStep /\ FadedInAfter
        /\ ev.seenFloor = getCameraPosition.z)
       => ev'.fadeInFinished]_vars
\* C9 amended: with floor fading enabled, onFadeInFinished is armed only by a
\* refresh that takes the reveal branch of the fade logic (camera on the floor
\* of the previous refresh and less than 3 tiles from it, first visible floor
\* shallower); once armed it is called in the first frame that finds the first
\* visible floor at fade level 1, and not again until the next such refresh.
C9_NotifiesOncePerShowBranch ==
    [][/\ FrameStep =>
            /\ ev'.fadeInFinished <=>
                    /\ canFloorFade /\ FadedInAfter
                    /\ (m_lastFadeLevel # 1 \/ ev'.fadeCase = "show")
            /\ ev'.fadeInFinished => m_lastFadeLevel' = 1
       /\ (m_lastFadeLevel = 1 /\ m_lastFadeLevel' # 1) => ev'.fadeCase = "show"]_vars
\* the notification fired in a frame after the one that revealed floor 0
C9_Witness ==
    /\ ev.op = "draw" /\ ev.fadeInFinished /\ ev.fadeCase = "none"
    /\ m_cachedFirstVisibleFloor = 0 /\ m_lastFadeLevel = 1


(***************************************************************************)
(* Frames, camera sources and world notifications                           *)
(***************************************************************************)
\* a fixed camera that is known or not yet known, lights on and off, a roof
\* that comes and goes
FrameCameras == {HomeCamera, InvalidPosition}
NextFrame ==
    \/ \E pos \in FrameCameras : setCameraPosition(pos)
    \/ TileChanged(TRoof6)
    \/ \E enable \in BOOLEAN : setDrawLights(enable)
    \/ draw(FrameRect)
SpecFrame == Init /\ [][NextFrame]_vars

\* C11: a frame drawn while the camera position is invalid runs the floor pass
\* and skips the creature-information, light and text passes; it leaves the
\* tile cache, the creature list, the cached floor range and the fade timers
\* unchanged.
C11_InvalidCameraFrame ==
    [][(~IsValid(getCameraPosition) /\ draw(FrameRect))
       => /\ ev'.passes = {"floor"}
          /\ UNCHANGED <<m_cachedVisibleTiles, m_visibleCreatures,
                         m_cachedFirstVisibleFloor, m_cachedLastVisibleFloor,
                         m_fadingFloorTimers>>]_vars
\* such a frame, with lights on, a refresh pending and tiles in the cache
C11_Witness ==
    /\ ev.op = "draw" /\ ev.passes = {"floor"} /\ ~ev.refreshed
    /\ ~IsValid(getCameraPosition)
    /\ m_drawLights /\ m_refreshVisibleTiles
    /\ m_cachedVisibleTiles[SEA_FLOOR].grounds # <<>>
\* a fixed camera and a followed creature that walks, with pixel pans
CameraMoveXs == {-10, SPRITE_SIZE}
NextCamera ==
    \/ setCameraPosition(HomeCamera)
    \/ \E creature \in Creatures : followCreature(creature)
    \/ \E creature \in Creatures, pos \in CreaturePositions : CreatureMoved(creature, pos)
    \/ \E x \in CameraMoveXs, y \in MoveYs : move(x, y)
SpecCamera == Init /\ [][NextCamera]_vars

\* C12: one camera source is authoritative at a time. setCameraPosition(p)
\* makes the camera p whatever creature was followed, and a later step of that
\* creature does not move it; followCreature(c) makes the camera the position
\* of c, whatever the stored fixed position, and the camera follows c when it
\* steps; move() does not change which source is authoritative.
C12_OneCameraSource ==
    [][/\ setCameraPosition(HomeCamera) => getCameraPosition' = HomeCamera
       /\ (ev'.op = "onTileUpdate" /\ ~isFollowingCreature)
            => getCameraPosition' = getCameraPosition
       /\ \A creature \in Creatures :
            followCreature(creature) => getCameraPosition' = creaturePos[creature]
       /\ (ev'.op = "onTileUpdate" /\ isFollowingCreature)
            => getCameraPosition' = creaturePos'[m_followingCreature]
       /\ ev'.op = "move"
            => /\ isFollowingCreature' = isFollowingCreature
               /\ UNCHANGED <<m_follow, m_followingCreature>>
               /\ isFollowingCreature => getCameraPosition' = getCameraPosition]_vars
\* the creature is followed and away from the stored fixed position, which a
\* pan has shifted
C12_Witness ==
    /\ isFollowingCreature /\ ev.op = "move"
    /\ IsValid(m_customCameraPosition)
    /\ m_customCameraPosition # getCameraPosition
    /\ getCameraPosition = Pos(HomeX + 1, HomeY, SEA_FLOOR)
\* the world changes tiles and moves a creature between frames
NextNotify ==
    \/ setCameraPosition(HomeCamera)
    \/ \E creature \in Creatures, pos \in CreaturePositions : CreatureMoved(creature, pos)
    \/ TileChanged(TRoof6)
    \/ onMapCenterChange
    \/ draw(FrameRect)
SpecNotify == InitFloors /\ [][NextNotify]_vars

WorldNotification == ev'.op = "onTileUpdate" \/ ev'.op = "onMapCenterChange"
\* C13: onTileUpdate and onMapCenterChange leave the tile cache, the creature
\* list, floorMin/floorMax and the cached floor range alone; they set the
\* refresh-tiles flag and, for a creature thing, the refresh-creatures flag.
\* The cache and the creature list change only in a frame whose
\* updateVisibleThings ran.
C13_NotificationsOnlySetFlags ==
    [][/\ WorldNotification
            => /\ UNCHANGED <<m_cachedVisibleTiles, m_visibleCreatures,
                              m_floorMin, m_floorMax,
                              m_cachedFirstVisibleFloor, m_cachedLastVisibleFloor>>
               /\ m_refreshVisibleTiles'
               /\ m_refreshVisibleCreatures'
                    = (m_refreshVisibleCreatures \/ ev'.refreshCreatures = 1)
       /\ (m_cachedVisibleTiles' # m_cachedVisibleTiles
            \/ m_visibleCreatures' # m_visibleCreatures)
            => RefreshStep]_vars
\* a creature step was notified while the cache and the creature list were
\* filled
C13_Witness ==
    /\ ev.op = "onTileUpdate" /\ ev.refreshCreatures = 1
    /\ m_refreshVisibleCreatures /\ m_refreshVisibleTiles
    /\ m_visibleCreatures # <<>>
    /\ m_cachedVisibleTiles[SEA_FLOOR].grounds # <<>>

(***************************************************************************)
(* Cache and floor bounds properties                                        *)
(***************************************************************************)
\* an underground camera that stays in place while tiles come and go below it
DeepCamera == Pos(HomeX, HomeY, UNDERGROUND_FLOOR + 2)
DeepTiles == {TDeep11, TDeep12}
NextCache ==
    \/ setCameraPosition(DeepCamera)
    \/ \E tile \in DeepTiles : TileChanged(tile)
    \/ onMapCenterChange
    \/ draw(FrameRect)
SpecCache == InitFloors /\ [][NextCache]_vars

\* the buckets a refresh classifies for floor z: the population loop runs over
\* the floors from the last visible floor down to the local first floor
ClassifiedFloor(z) ==
    LET cameraPosition == getCameraPosition
        localFirst == LocalFirst(cameraPosition, m_lockedFirstVisibleFloor,
                                 m_cachedFirstVisibleFloor)
    IN  IF z <= m_cachedLastVisibleFloor /\ z >= localFirst
        THEN BuildFloor(cameraPosition, z, m_drawLights)
        ELSE EmptyFloor

\* C14: after every completed refresh each bucket of every floor of the cache
\* holds exactly the tiles this refresh classified into it, each once, with
\* nothing left from an earlier refresh.
C14_CacheRebuiltWholesale ==
    ev.refreshed => \A z \in 0..MAX_Z : m_cachedVisibleTiles[z] = ClassifiedFloor(z)

\* C15: floorMin and floorMax lie in 0..MAX_Z in every reachable state, so that
\* every index into the per-floor cache and the fade timers is in range.
C15_FloorBoundsInRange ==
    /\ m_floorMin \in 0..MAX_Z
    /\ m_floorMax \in 0..MAX_Z

\* manual lock and unlock between frames, in every floor view mode
NextLock ==
    \/ setCameraPosition(HomeCamera)
    \/ \E floor \in LockFloors : lockFirstVisibleFloor(floor)
    \/ unlockFirstVisibleFloor
    \/ \E mode \in FloorViewModes : setFloorViewMode(mode)
    \/ TileChanged(TRoof6)
    \/ draw(FrameRect)
SpecLock == InitFloors /\ [][NextLock]_vars

\* C16: from lockFirstVisibleFloor(f) until unlockFirstVisibleFloor, every
\* refresh computes the first visible floor f (clamped to 0..MAX_Z) and a last
\* visible floor >= f, in every floor view mode; with no manual lock in force
\* the first visible floor is computed from the camera surroundings.
C16_ManualLockDecidesFirstFloor ==
    [][RefreshStep =>
        IF ev.manualLock # -1
        THEN /\ m_cachedFirstVisibleFloor' = Clamp(ev.manualLock, 0, MAX_Z)
             /\ m_cachedLastVisibleFloor' >= ev.manualLock
        ELSE (m_lastCameraPosition # getCameraPosition /\ m_floorViewMode # "LOCKED")
             => m_cachedFirstVisibleFloor'
                  = calcFirstVisibleFloor(m_floorViewMode # "ALWAYS", -1,
                                          getCameraPosition)]_vars

\* C20: after every completed refresh the cached first and last visible floor
\* are the range computed from the current world and camera, also when only a
\* tile changed and the camera did not move.
C20_CachedRangeCurrent ==
    ev.refreshed =>
        <<m_cachedFirstVisibleFloor, m_cachedLastVisibleFloor>>
            = RangeFor(getCameraPosition, m_lockedFirstVisibleFloor,
                       calcFirstVisibleFloor(m_floorViewMode # "ALWAYS",
                                             m_lockedFirstVisibleFloor,
                                             getCameraPosition))


(***************************************************************************)
(* Fade timer restarts                                                      *)
(***************************************************************************)
\* case (a): the previous camera was invalid, on another floor or 3 tiles away
CameraJumped ==
    \/ ~IsValid(m_lastCameraPosition)
    \/ m_lastCameraPosition.z # getCameraPosition.z
    \/ DistanceAtLeast3(m_lastCameraPosition, getCameraPosition)
\* a timer restarted with the full fade duration, with the remaining time
FullFade == m_floorFading
RemainingTime(iz) == Max(0, m_floorFading - m_fadingFloorTimers[iz])
\* the timers after a refresh whose case (a) restarts the floors from..last
TimersAfterRefresh(from) ==
    [iz \in 0..MAX_Z |->
        IF CameraJumped
        THEN (IF iz >= from /\ iz <= m_cachedLastVisibleFloor'
              THEN FullFade ELSE m_fadingFloorTimers[iz])
        ELSE IF m_cachedFirstVisibleFloor < m_cachedFirstVisibleFloor'
        THEN (IF iz >= m_cachedFirstVisibleFloor /\ iz < m_cachedFirstVisibleFloor'
              THEN RemainingTime(iz) ELSE m_fadingFloorTimers[iz])
        ELSE IF m_cachedFirstVisibleFloor > m_cachedFirstVisibleFloor'
        THEN (IF iz >= m_cachedFirstVisibleFloor' /\ iz < m_cachedFirstVisibleFloor
              THEN RemainingTime(iz) ELSE m_fadingFloorTimers[iz])
        ELSE m_fadingFloorTimers[iz]]
\* case (c) resets the last observed fade level (the same frame may observe
\* level 1 again and notify)
FadeLevelReset ==
    (~CameraJumped /\ m_cachedFirstVisibleFloor > m_cachedFirstVisibleFloor')
    => (m_lastFadeLevel' = 0 \/ ev'.fadeInFinished)

\* C18: a refresh applies at most one fade-restart case, in priority order:
\* (a) after a camera jump the timers of the floors from the last visible floor
\* down to the first visible floor restart with the full fade duration; else
\* (b) when the first visible floor moved deeper the timers of the floors
\* [previous first, new first) restart with max(0, duration - elapsed); else
\* (c) when it moved shallower the timers of [new first, previous first) restart
\* the same way and the last fade level is reset; all other timers are unchanged.
C18_FadeRestartCases ==
    [][RefreshStep =>
        /\ m_fadingFloorTimers' = TimersAfterRefresh(m_cachedFirstVisibleFloor')
        /\ FadeLevelReset]_vars
\* C18 as the code has it: in case (a) the restarted floors go down to the
\* first floor computed without floor-limiting tiles (calcFirstVisibleFloor(false))
\* when floor fading is enabled or the mode is ALWAYS_WITH_TRANSPARENCY, and to
\* the cached first visible floor otherwise; cases (b) and (c) as stated.
C18_FadeRestartCasesLocalFirst ==
    [][RefreshStep =>
        /\ m_fadingFloorTimers'
             = TimersAfterRefresh(LocalFirst(getCameraPosition,
                                             m_lockedFirstVisibleFloor',
                                             m_cachedFirstVisibleFloor'))
        /\ FadeLevelReset]_vars
\* a refresh took case (b) and restarted the roof floor with the remaining time
\* of a fade that was half way
C18_Witness ==
    /\ ev.op = "draw" /\ ev.refreshed /\ ev.fadeCase = "hide"
    /\ canFloorFade
    /\ m_cachedFirstVisibleFloor = SEA_FLOOR
    /\ m_fadingFloorTimers[SEA_FLOOR - 1] = 1


(***************************************************************************)
(* Floor pass order                                                         *)
(***************************************************************************)
LayerRank(layer) ==
    CASE layer = "ground" -> 1 [] layer = "surface" -> 2
      [] layer = "effect" -> 3 [] layer = "missile" -> 4
\* the draw calls the floor pass made for floor z, in order
DrawnOn(z) == SelectSeq(ev.drawn, LAMBDA call : call.z = z)
\* the floor loop stopped at floor z or above it
StoppedBy(z) ==
    canFloorFade /\ \E s \in z..m_floorMax : FadeLevelIsZero(m_fadingFloorTimers, s)

\* C19: the floor pass visits the floors in descending order from floorMax to
\* floorMin and, with floor fading enabled, stops at the first floor whose
\* fade level is 0: nothing of that floor or of a floor with a lower index is
\* drawn; a floor that is drawn has its grounds, then its surfaces, then its
\* effects, then the floor missiles drawn.
C19_FloorPassOrder ==
    ev.op = "draw" =>
        /\ \A i, j \in 1..Len(ev.drawn) :
             i < j => \/ ev.drawn[i].z > ev.drawn[j].z
                      \/ /\ ev.drawn[i].z = ev.drawn[j].z
                         /\ LayerRank(ev.drawn[i].layer) <= LayerRank(ev.drawn[j].layer)
        /\ \A i \in 1..Len(ev.drawn) :
             ev.drawn[i].z >= m_floorMin /\ ev.drawn[i].z <= m_floorMax
        /\ \A z \in 0..MAX_Z :
             (z >= m_floorMin /\ z <= m_floorMax) =>
                IF StoppedBy(z) THEN DrawnOn(z) = <<>>
                ELSE DrawnOn(z) = DrawOneFloor(z, m_cachedVisibleTiles[z])
\* a frame drew the sea floor and stopped at the roof floor above it, which
\* holds tiles and a missile and whose fade level is 0
C19_Witness ==
    /\ ev.op = "draw" /\ canFloorFade
    /\ m_floorMin = SEA_FLOOR - 1 /\ m_floorMax = SEA_FLOOR
    /\ FadeLevelIsZero(m_fadingFloorTimers, SEA_FLOOR - 1)
    /\ m_cachedVisibleTiles[SEA_FLOOR - 1].grounds # <<>>
    /\ DrawnOn(SEA_FLOOR) # <<>>
    /\ DrawnOn(SEA_FLOOR - 1) = <<>>


(***************************************************************************)
(* Visible creature list                                                    *)
(***************************************************************************)
\* the creatures a refresh collects: those on the in-range drawable tiles it
\* visits, floor by floor, each tile's creatures last first
VisitedCreatures ==
    CollectFloors(m_cachedLastVisibleFloor',
                  LocalFirst(getCameraPosition, m_lockedFirstVisibleFloor',
                             m_cachedFirstVisibleFloor'),
                  getCameraPosition)
\* C21: a refresh with the refresh-creatures flag clear and no floor change
\* leaves the creature list unchanged; a refresh that collects creatures (the
\* flag was set, or onFloorChange raised it during the refresh) leaves exactly
\* the creatures it visited in the list, with nothing from before the refresh.
C21_CreatureListRebuilt ==
    [][RefreshStep =>
        IF m_refreshVisibleCreatures \/ ev'.floorChange = 1
        THEN m_visibleCreatures' = VisitedCreatures
        ELSE UNCHANGED m_visibleCreatures]_vars


(***************************************************************************)
(* First visible floor: the 3x3 scan                                        *)
(***************************************************************************)
\* cameras whose own cell, orthogonal neighbour, diagonal neighbour or covered
\* projection lies under the roof of the home position; two underground ones
ScanCameras ==
    {Pos(HomeX, HomeY, SEA_FLOOR), Pos(HomeX + 1, HomeY, SEA_FLOOR),
     Pos(HomeX + 1, HomeY + 1, SEA_FLOOR), Pos(HomeX - 1, HomeY - 1, SEA_FLOOR),
     Pos(HomeX + 2, HomeY, SEA_FLOOR), Pos(HomeX, HomeY, UNDERGROUND_FLOOR),
     Pos(HomeX, HomeY, UNDERGROUND_FLOOR + 1)}
ScanTiles == {TRoof6, TWall7, TWallRoof6}
NextScan ==
    \/ \E pos \in ScanCameras : setCameraPosition(pos)
    \/ \E tile \in ScanTiles : TileChanged(tile)
    \/ draw(FrameRect)
SpecScan == InitFloors /\ [][NextScan]_vars

\* the floor the scan starts from when nothing limits the view
ScanBase(cameraPosition) ==
    IF cameraPosition.z > SEA_FLOOR
    THEN Max(cameraPosition.z - AWARE_UNDEGROUND_FLOOR_RANGE, UNDERGROUND_FLOOR)
    ELSE 0
\* the floors of the tiles that limit the view over a cell: physically above
\* it, or geometrically above it through the covered-up projection
LimitingFloors(cell) ==
    {t.pos.z : t \in {u \in world :
        /\ u.pos.z < cell.z
        /\ \/ /\ u.pos.x = cell.x /\ u.pos.y = cell.y
              /\ limitsFloorsView(u, ~isLookPossible(cell))
           \/ /\ u.pos.x - cell.x = cell.z - u.pos.z
              /\ u.pos.y - cell.y = cell.z - u.pos.z
              /\ limitsFloorsView(u, isLookPossible(cell))}}
OrthogonalSteps == {<<-1, 0>>, <<1, 0>>, <<0, -1>>, <<0, 1>>}
DiagonalSteps == {<<-1, -1>>, <<-1, 1>>, <<1, -1>>, <<1, 1>>}
\* the neighbours reached by the steps through which look is possible
LookCells(cameraPosition, steps) ==
    {cell \in {Translated(cameraPosition, d[1], d[2]) : d \in steps} :
        isLookPossible(cell)}
\* one above the highest-numbered limiting floor over the cells, or the base
FirstFloorOver(cameraPosition, cells) ==
    LET floors == {ScanBase(cameraPosition)}
                    \cup {z + 1 : z \in UNION {LimitingFloors(cell) : cell \in cells}}
    IN  CHOOSE m \in floors : \A f \in floors : f <= m

\* C22: with no lock and limit checking enabled, calcFirstVisibleFloor is one
\* above the limiting tile that stops the scan and never above the camera
\* floor; the camera's own cell always contributes, an orthogonal neighbour
\* contributes only if look is possible there, and a diagonal neighbour never
\* contributes.
C22_OrthogonalNeighboursScanned ==
    IsValid(getCameraPosition) =>
        LET floor == calcFirstVisibleFloor(TRUE, -1, getCameraPosition)
        IN  /\ floor <= getCameraPosition.z
            /\ floor = FirstFloorOver(getCameraPosition,
                           {getCameraPosition}
                               \cup LookCells(getCameraPosition, OrthogonalSteps))
\* the roof is over a diagonal neighbour through which look is possible, and
\* the refresh found nothing limiting the view
C22_Witness ==
    /\ ev.op = "draw" /\ ev.refreshed
    /\ getCameraPosition = Pos(HomeX + 1, HomeY + 1, SEA_FLOOR)
    /\ TRoof6 \in world
    /\ isLookPossible(Pos(HomeX, HomeY, SEA_FLOOR))
    /\ calcFirstVisibleFloor(TRUE, -1, getCameraPosition) = 0
    /\ m_cachedFirstVisibleFloor = 0
\* the claim as stated: a diagonal neighbour where look is possible is
\* scanned like an orthogonal one
C22_DiagonalNeighboursScanned ==
    IsValid(getCameraPosition) =>
        LET floor == calcFirstVisibleFloor(TRUE, -1, getCameraPosition)
        IN  /\ floor <= getCameraPosition.z
            /\ floor = FirstFloorOver(getCameraPosition,
                           {getCameraPosition}
                               \cup LookCells(getCameraPosition,
                                              OrthogonalSteps \cup DiagonalSteps))


(***************************************************************************)
(* Shader crossfade: opacity and the latest request                         *)
(***************************************************************************)
\* C23: the opacity the before-draw hook passes to the painter lies in [0, 1]:
\* 1 - elapsed / fadeOutTime while fading out, min(elapsed / fadeInTime, 1)
\* while fading in, 1 in the steady state, the frame of the shader swap and
\* the cases fadeInTime = 0 and new shader null included.
C23_HookOpacityInUnitRange ==
    [][HookStep =>
        LET opacity == ev'.opacity
        IN  /\ 0 <= opacity[1] /\ opacity[1] <= opacity[2]
            /\ opacity =
                 IF ~m_shaderSwitchDone'
                 THEN <<m_fadeOutTime - m_fadeTimer, m_fadeOutTime>>
                 ELSE IF m_shader' # NoShader /\ m_fadeInTime > 0
                 THEN <<Min(m_fadeTimer', m_fadeInTime), m_fadeInTime>>
                 ELSE <<1, 1>>]_vars

\* the crossfade has settled: the switch is done and no shader is pending
ShaderSettled == m_shaderSwitchDone /\ m_nextShader = NoShader
\* C24: the most recent shader request wins: once the crossfade has settled
\* after the latest setShader call, the active shader is the one that call
\* requested, also when it was requested while a crossfade to another shader
\* was pending and it equals the active shader.
C24_LatestRequestWins ==
    ShaderSettled => m_shader = ev.requested


(***************************************************************************)
(* Floor pass: the pool opacity of a fading floor                           *)
(***************************************************************************)
\* three cameras less than three tiles apart: under the roof of the home
\* position, under the higher roof, and under the open sky
PoolCameras ==
    {Pos(HomeX, HomeY, SEA_FLOOR), Pos(HomeX + 3, HomeY, SEA_FLOOR),
     Pos(HomeX + 2, HomeY + 2, SEA_FLOOR)}
PoolTiles == {TRoof6, TRoof5}
NextPool ==
    \/ \E pos \in PoolCameras : setCameraPosition(pos)
    \/ \E tile \in PoolTiles : TileChanged(tile)
    \/ setDrawLights(TRUE)
    \/ draw(FrameRect)
    \/ Tick
SpecPool == Init /\ [][NextPool]_vars

\* C25: with fading enabled, every floor iteration of the floor pass that sets
\* the pool opacity resets the opacity and flushes the pool before the next
\* iteration starts or the loop ends, also when lights are drawn and the next
\* floor's fade level is 0.
C25_FadeOpacityReset ==
    (ev.op = "draw" /\ canFloorFade) =>
        \A i \in DOMAIN ev.pool :
            ev.pool[i].setOpacity => ev.pool[i].resetOpacity /\ ev.pool[i].flushed


(***************************************************************************)
(* The memoized source rectangle                                            *)
(***************************************************************************)
\* frames with the same rectangle, with camera and geometry changes in between;
\* the camera is dragged by half a tile to the left or to the right
RectMoveXs == {-(SPRITE_SIZE \div 2), SPRITE_SIZE \div 2}
NextRect ==
    \/ setCameraPosition(HomeCamera)
    \/ \E creature \in Creatures : followCreature(creature)
    \/ \E x \in RectMoveXs : move(x, 0)
    \/ \E mode \in AntialiasingModes : setAntiAliasingMode(mode)
    \/ draw(FrameRect)
SpecRect == InitFloors /\ [][NextRect]_vars

\* C26: in every frame drawn with the rectangle, the cached source rectangle
\* is the one calcFramebufferSource gives for the rectangle's size on the
\* state of that frame, whatever move, followCreature, setCameraPosition,
\* setVisibleDimension and setAntiAliasingMode calls came between the frames.
\* (The frames here are separated by moves, follows, camera placements and
\* anti-aliasing changes.)
C26_SourceRectCurrent ==
    ev.op = "draw" =>
        /\ m_rectCache.rect = FrameRect
        /\ m_rectCache.srcRect = calcFramebufferSource(Size(FrameRect.w, FrameRect.h))


(***************************************************************************)
(* Refresh requests                                                         *)
(***************************************************************************)
\* a camera that is not known yet, one at sea level and one deep underground
RefreshCameras == {InvalidPosition, HomeCamera, Pos(HomeX, HomeY, MAX_Z - 1)}
NextRefresh ==
    \/ \E pos \in RefreshCameras : setCameraPosition(pos)
    \/ \E x \in RectMoveXs : move(x, 0)
    \/ onMapCenterChange
    \/ draw(FrameRect)
SpecRefresh == InitFloors /\ [][NextRefresh]_vars

\* move() shifted the camera by at least one whole tile in some axis
CameraShifted ==
    \/ m_customCameraPosition'.x # m_customCameraPosition.x
    \/ m_customCameraPosition'.y # m_customCameraPosition.y
\* C27: a refresh request is never lost: a set refresh-tiles flag stays set
\* until a frame completes updateVisibleThings with a valid camera; a completed
\* refresh leaves both flags clear (the tiles flag only if the same frame's
\* fade-in notification asks for another refresh); move sets the refresh-tiles
\* flag exactly when it shifts the camera by a whole tile, and leaves it as it
\* was otherwise; and if frames keep being drawn (the external scheduler draws
\* one in every render tick) and the camera is eventually valid for good, a
\* pending request is followed by a completed refresh.
C27_RefreshNeverLost ==
    /\ [][(m_refreshVisibleTiles /\ ~m_refreshVisibleTiles') => RefreshStep]_vars
    /\ [][RefreshStep => /\ ~m_refreshVisibleCreatures'
                         /\ m_refreshVisibleTiles' => ev'.fadeInFinished]_vars
    /\ [][ev'.op = "move"
          => m_refreshVisibleTiles' = (m_refreshVisibleTiles \/ CameraShifted)]_vars
    /\ ([]<>(ev.op = "draw") /\ <>[]IsValid(getCameraPosition))
          => [](m_refreshVisibleTiles => <>(ev.op = "draw" /\ ev.refreshed))
\* a frame with the camera at sea level completed the refresh requested while
\* the camera was not known: the cache holds the ground under the camera and
\* both flags are clear
C27_Witness ==
    /\ ev.op = "draw" /\ ev.refreshed
    /\ getCameraPosition = HomeCamera
    /\ ~m_refreshVisibleTiles /\ ~m_refreshVisibleCreatures
    /\ m_floorMax = SEA_FLOOR /\ m_cachedVisibleTiles[SEA_FLOOR].grounds # <<>>

====
